---- MODULE Spec2Model ----
(***************************************************************************)
(* WordDumb: the offset-aware text-annotation pipeline.                    *)
(*   src/parse_job.py   segment extractors, find_lemma, find_named_entity  *)
(*   src/x_ray_epub.py  X_Ray_EPUB: extract_epub, add_entity, modify_epub  *)
(* Text is a sequence of Unicode codepoints (integers); a byte buffer is a *)
(* sequence of integers 0..255.                                            *)
(***************************************************************************)
EXTENDS Integers, Sequences, FiniteSets, TLC

VARIABLES
    \* ---- Offset Translator (parse_job.py:83-92, 111-116)
    text,               \* the decoded text of a segment
    index,              \* a codepoint offset into text (match.start())
    byte_index,         \* its byte offset, -1 before it is computed
    back_index,         \* the byte offset converted back, -1 before
    pcT,                \* "start" | "byte" | "done"
    \* ---- X_Ray_EPUB (x_ray_epub.py:33-35)
    entity_id,          \* self.entity_id: the next id
    entities,           \* self.entities: the dict, as the sequence of its
                        \* items [key, id, label, quote] in insertion order
    entity_occurrences, \* self.entity_occurrences: the defaultdict, as the
                        \* sequence of its items [path, occs] in insertion order
    \* ---- history of the add_entity calls
    calls,              \* number of add_entity calls made
    last_call,          \* the arguments of the latest call
    \* ---- insert_anchor_elements on one part (x_ray_epub.py:119-143)
    body_str,           \* the part's <body>...</body> text
    entity_list,        \* the part's occurrences (start, end, entity, id)
    s,                  \* the rewritten body: characters and anchor markup
    pcA,                \* "ready" | "done"
    \* ---- Segment Extractor (parse_job.py:41-77, x_ray_epub.py:75-92)
    book_fmt,           \* "KFX" | "MOBI" | "EPUB"
    container,          \* KFX: the 'data' entries [position, content];
                        \* MOBI: the html buffer; EPUB: the parts [path, body]
    scan,               \* the generator's position [part, pos]
    segments,           \* the segments yielded so far [start, text, part]
    pcS,                \* "run" | "done"
    \* ---- the annotation run over the segments (parse_job.py:28-32, 95-117)
    ner_done,           \* number of segments find_named_entity has processed
    tagged,             \* history: the tagger's nodes for each of them
    pcN,                \* "run" | "done"
    \* ---- X_Ray_EPUB.modify_epub (x_ray_epub.py:110-143, 222-228)
    wikidata,           \* self.wikidata is set
    work,               \* the extracted working copy: per part, the body as
                        \* the items of a rewritten document
    part_k,             \* items of entity_occurrences rewritten so far
    made,               \* the steps completed, in order
    archive,            \* the repackaged book, <<>> while there is none
    pcM,                \* the step about to run | "done" | "failed"
    \* ---- the files of an EPUB run (x_ray_epub.py:27-48, 222-228)
    book_path,          \* self.book_path: a file name, as its parts
                        \* <<stem, ..., suffix>>
    files,              \* the directory of the book: what is at each name
    file_ops,           \* history: the operations on the directory <<op, name>>
    pcF,                \* the statement about to run | "done" | "failed"
    \* ---- do_job (parse_job.py:15-38)
    kf8_type,           \* MobiReader.kf8_type: "joint" | "other"
    ll_conn,            \* ll_conn: "none" | "open" | "closed"
    x_ray_pref,         \* prefs['x-ray']
    x_ray_db,           \* the X-Ray database: "none" | "open" | "finished"
    ll_log,             \* history: the calls on ll_conn, <<"insert", index,
                        \* lemma>>, <<"commit">> and <<"close">>
    \* ---- dump_wikitionary (data/wiktionary.py:94-127)
    words,              \* the word list: [enabled, word, short_gloss,
                        \* gloss, example, forms]
    lang,               \* the language code
    matcher,            \* the automaton or keyword processor: its items
                        \* [key, value] in insertion order
    pcD,                \* "ready" | "done"
    \* ---- extract_wiktionary (data/wiktionary.py:36-91)
    file,               \* the lines of the downloaded file: [word, pos,
                        \* forms, senses]
    line_no,            \* the lines the loop has processed
    kindle_lemmas,      \* the Kindle lemmas, a set of words
    pcW,                \* "ready" | "done"
    \* ---- create_footnotes (x_ray_epub.py:145-190)
    search_people,      \* self.search_people
    intro_cache,        \* the entities mediawiki.get_cache has a record for
    wikidata_cache,     \* what wikidata.get_cache returns: "none" | "plain"
                        \* | "map"
    footnotes,          \* the page x_ray.xhtml: its aside elements in order
    image_filenames,    \* self.image_filenames
    pcFn,               \* "ready" | "done"
    \* ---- find_lemma (parse_job.py:80-92)
    lemma_text,         \* the text of the segment, decoded
    lemma_bytes,        \* the segment was given as bytes
    lookups,            \* history: the arguments of wn.morphy
    inserts,            \* history: the calls of insert_lemma
    pcL                 \* "ready" | "done"

offsetVars == <<text, index, byte_index, back_index, pcT>>
entityVars == <<entity_id, entities, entity_occurrences>>
callVars == <<calls, last_call>>
anchorVars == <<body_str, entity_list, s, pcA>>
extractVars == <<book_fmt, container, scan, segments, pcS>>
nerVars == <<ner_done, tagged, pcN>>
modifyVars == <<wikidata, work, part_k, made, archive, pcM>>
fileVars == <<book_path, files, file_ops, pcF>>
jobVars == <<kf8_type, ll_conn, x_ray_pref, x_ray_db, ll_log>>
dumpVars == <<words, lang, matcher, pcD>>
wiktVars == <<file, line_no, kindle_lemmas, pcW>>
footVars == <<search_people, intro_cache, wikidata_cache, footnotes, image_filenames, pcFn>>
lemmaVars == <<lemma_text, lemma_bytes, lookups, inserts, pcL>>

vars == <<offsetVars, entityVars, callVars, anchorVars, extractVars, nerVars,
          modifyVars, fileVars, jobVars, dumpVars, wiktVars, footVars,
          lemmaVars>>

\* What the actions of one component leave alone.
exceptOffsets == <<entityVars, callVars, anchorVars, extractVars, nerVars,
                   modifyVars, fileVars, jobVars, dumpVars, wiktVars,
                   footVars, lemmaVars>>
exceptEntities == <<offsetVars, anchorVars, extractVars, nerVars, modifyVars,
                    fileVars, jobVars, dumpVars, wiktVars, footVars,
                    lemmaVars>>
exceptAnchors == <<offsetVars, entityVars, callVars, extractVars, nerVars,
                   modifyVars, fileVars, jobVars, dumpVars, wiktVars,
                   footVars, lemmaVars>>
exceptExtract == <<offsetVars, entityVars, callVars, anchorVars, nerVars,
                   modifyVars, fileVars, jobVars, dumpVars, wiktVars,
                   footVars, lemmaVars>>
exceptNer == <<offsetVars, callVars, anchorVars, modifyVars, fileVars,
               dumpVars, wiktVars, footVars, lemmaVars>>
exceptModify == <<offsetVars, entityVars, callVars, anchorVars, extractVars,
                  nerVars, fileVars, jobVars, dumpVars, wiktVars, footVars,
                  lemmaVars>>
exceptFootnotes == <<offsetVars, entityVars, callVars, anchorVars,
                     extractVars, nerVars, fileVars, jobVars, dumpVars,
                     wiktVars, lemmaVars>>
exceptRun == <<offsetVars, callVars, anchorVars, fileVars, dumpVars, wiktVars,
               footVars, lemmaVars>>
exceptDump == <<offsetVars, entityVars, callVars, anchorVars, extractVars,
                nerVars, modifyVars, fileVars, jobVars, wiktVars, footVars,
                lemmaVars>>
exceptWikt == <<offsetVars, entityVars, callVars, anchorVars, extractVars,
                nerVars, modifyVars, fileVars, jobVars, footVars, lemmaVars>>
exceptFoot == <<offsetVars, callVars, anchorVars, extractVars, nerVars,
                fileVars, jobVars, dumpVars, wiktVars, lemmaVars>>
exceptLemma == <<offsetVars, entityVars, callVars, anchorVars, extractVars,
                 nerVars, modifyVars, fileVars, jobVars, dumpVars, wiktVars,
                 footVars>>
exceptFiles == <<offsetVars, entityVars, callVars, anchorVars, extractVars,
                 nerVars, modifyVars, jobVars, dumpVars, wiktVars, footVars,
                 lemmaVars>>

\* ------------------------------------------------------------------ bounds
MaxLen == 3             \* longest buffer of the Offset Translator runs
MaxCalls == 3           \* add_entity calls of one resolver run
MaxBody == 4            \* longest body of the anchor-insertion runs
MaxAnchors == 2         \* most occurrences of one anchor-insertion run
MaxHtml == 6            \* longest html buffer of the extractor runs
MaxEntries == 2         \* most content blocks of a KFX container
MaxContent == 2         \* longest content of a KFX block, largest gap
MaxMarkup == 3          \* longest markup inside the body of an EPUB part
MaxWords == 3           \* most words of the text of one generated book
MaxSegs == 2            \* most segments of one generated book
MaxSpans == 2           \* most nodes the tagger returns for a segment
MaxNerLen == 4          \* longest text of the find_named_entity runs
MaxDumpWords == 2       \* most entries of a word list of dump_wikitionary
MaxWordLen == 3         \* longest word of a line of the Wiktionary file
MaxForms == 2           \* most forms of a line
MaxSenses == 2          \* most senses of a line
MaxLemmaLen == 4        \* longest text of the find_lemma runs

\* ---------------------------------------------------------- initial values
\* The Offset Translator's variables in a specification that does not run it.
IdleOffsets ==
    /\ text = <<>>
    /\ index = 0
    /\ byte_index = -1
    /\ back_index = -1
    /\ pcT = "idle"

\* X_Ray_EPUB.__init__
IdleEntities ==
    /\ entity_id = 0
    /\ entities = <<>>
    /\ entity_occurrences = <<>>
    /\ calls = 0
    /\ last_call = <<>>

\* insert_anchor_elements' variables in a specification that does not run it.
IdleAnchors ==
    /\ body_str = <<>>
    /\ entity_list = <<>>
    /\ s = <<>>
    /\ pcA = "idle"

\* The extractors' variables in a specification that does not run them.
IdleExtract ==
    /\ book_fmt = "none"
    /\ container = <<>>
    /\ scan = [part |-> 1, pos |-> 0]
    /\ segments = <<>>
    /\ pcS = "idle"

\* The annotation run's variables in a specification that does not run it.
IdleNer ==
    /\ ner_done = 0
    /\ tagged = <<>>
    /\ pcN = "idle"

\* modify_epub's variables before it runs.
IdleModify ==
    /\ wikidata = FALSE
    /\ work = <<>>
    /\ part_k = 0
    /\ made = <<>>
    /\ archive = <<>>
    /\ pcM = "idle"

\* the files of an EPUB run (x_ray_epub.py:27-48, 222-228): the variables in a specification that does not run it.
IdleFiles ==
    /\ book_path = <<>>
    /\ files = <<>>
    /\ file_ops = <<>>
    /\ pcF = "idle"

\* do_job (parse_job.py:15-38): the variables in a specification that does not run it.
IdleJob ==
    /\ kf8_type = "other"
    /\ ll_conn = "none"
    /\ x_ray_pref = TRUE
    /\ x_ray_db = "open"
    /\ ll_log = <<>>

\* dump_wikitionary (data/wiktionary.py:94-127): the variables in a specification that does not run it.
IdleDump ==
    /\ words = <<>>
    /\ lang = "en"
    /\ matcher = <<>>
    /\ pcD = "idle"

\* extract_wiktionary (data/wiktionary.py:36-91): the variables in a specification that does not run it.
IdleWikt ==
    /\ file = <<>>
    /\ line_no = 0
    /\ kindle_lemmas = {}
    /\ pcW = "idle"

\* create_footnotes (x_ray_epub.py:145-190): the variables in a specification that does not run it.
IdleFoot ==
    /\ search_people = FALSE
    /\ intro_cache = {}
    /\ wikidata_cache = "none"
    /\ footnotes = <<>>
    /\ image_filenames = {}
    /\ pcFn = "idle"

\* find_lemma (parse_job.py:80-92): the variables in a specification that does not run it.
IdleLemma ==
    /\ lemma_text = <<>>
    /\ lemma_bytes = FALSE
    /\ lookups = <<>>
    /\ inserts = <<>>
    /\ pcL = "idle"

\* ------------------------------------------------------------- characters
\* One codepoint of each UTF-8 width: 'a', U+00E9, U+20AC, U+1F600.
CpA == 97
CpEAcute == 233
CpEuro == 8364
CpGrin == 128512
WidthAlphabet == {CpA, CpEAcute, CpEuro, CpGrin}

\* All sequences over S of length 0..n.
SeqUpTo(S, n) == UNION {[1..k -> S] : k \in 0..n}

\* str.encode('utf-8') of one codepoint.
Utf8(cp) ==
    IF cp < 128 THEN <<cp>>
    ELSE IF cp < 2048 THEN <<192 + (cp \div 64), 128 + (cp % 64)>>
    ELSE IF cp < 65536 THEN
        <<224 + (cp \div 4096), 128 + ((cp \div 64) % 64), 128 + (cp % 64)>>
    ELSE <<240 + (cp \div 262144), 128 + ((cp \div 4096) % 64),
           128 + ((cp \div 64) % 64), 128 + (cp % 64)>>

\* str.encode('utf-8'): the concatenation of the codepoints' encodings.
RECURSIVE Encode(_)
Encode(t) ==
    IF t = <<>> THEN <<>> ELSE Utf8(Head(t)) \o Encode(Tail(t))

\* Number of bytes of the UTF-8 sequence a lead byte announces (0: not a lead).
LeadWidth(b) ==
    IF b < 128 THEN 1
    ELSE IF b >= 192 /\ b < 224 THEN 2
    ELSE IF b >= 224 /\ b < 240 THEN 3
    ELSE IF b >= 240 /\ b < 248 THEN 4
    ELSE 0

\* The codepoint of one complete UTF-8 sequence.
Utf8Value(bs) ==
    IF Len(bs) = 1 THEN bs[1]
    ELSE IF Len(bs) = 2 THEN (bs[1] - 192) * 64 + (bs[2] - 128)
    ELSE IF Len(bs) = 3 THEN
        (bs[1] - 224) * 4096 + (bs[2] - 128) * 64 + (bs[3] - 128)
    ELSE (bs[1] - 240) * 262144 + (bs[2] - 128) * 4096
         + (bs[3] - 128) * 64 + (bs[4] - 128)

\* bytes.decode('utf-8') succeeds: every sequence is complete and well formed.
RECURSIVE Decodable(_)
Decodable(bs) ==
    IF bs = <<>> THEN TRUE
    ELSE LET w == LeadWidth(Head(bs)) IN
         /\ w > 0
         /\ w <= Len(bs)
         /\ \A i \in 2..w : bs[i] >= 128 /\ bs[i] < 192
         /\ Decodable(SubSeq(bs, w + 1, Len(bs)))

\* bytes.decode('utf-8') of a decodable buffer.
RECURSIVE Decode(_)
Decode(bs) ==
    IF bs = <<>> THEN <<>>
    ELSE LET w == LeadWidth(Head(bs)) IN
         <<Utf8Value(SubSeq(bs, 1, w))>> \o Decode(SubSeq(bs, w + 1, Len(bs)))

\* text[:i]
Prefix(t, i) == SubSeq(t, 1, i)

\* --------------------------------------------------------- text literals
Lower == <<"a", "b", "c", "d", "e", "f", "g", "h", "i", "j", "k", "l", "m",
           "n", "o", "p", "q", "r", "s", "t", "u", "v", "w", "x", "y", "z">>
Upper == <<"A", "B", "C", "D", "E", "F", "G", "H", "I", "J", "K", "L", "M",
           "N", "O", "P", "Q", "R", "S", "T", "U", "V", "W", "X", "Y", "Z">>

\* ord() of one ASCII character.
Ord(ch) ==
    IF \E i \in 1..26 : Lower[i] = ch THEN 96 + (CHOOSE i \in 1..26 : Lower[i] = ch)
    ELSE IF \E i \in 1..26 : Upper[i] = ch THEN 64 + (CHOOSE i \in 1..26 : Upper[i] = ch)
    ELSE IF ch = " " THEN 32
    ELSE IF ch = "." THEN 46
    ELSE IF ch = "/" THEN 47
    ELSE IF ch = "<" THEN 60
    ELSE 62

\* A text literal, written as the tuple of its characters.
Str(chars) == [i \in DOMAIN chars |-> Ord(chars[i])]

\* ------------------------------------------------------- Entity Resolver
MrDarcy == Str(<<"M", "r", ".", " ", "D", "a", "r", "c", "y">>)
Darcy == Str(<<"D", "a", "r", "c", "y">>)
MrDarcey == Str(<<"M", "r", ".", " ", "D", "a", "r", "c", "e", "y">>)
Elizabeth == Str(<<"E", "l", "i", "z", "a", "b", "e", "t", "h">>)
Names == {MrDarcy, Darcy, MrDarcey, Elizabeth}
Labels == {"PERSON", "GPE"}
Quotes == {Str(<<"q">>), Str(<<"r">>)}
Parts == {"ch1.xhtml", "ch2.xhtml"}
\* The distance between the offsets of two successive calls of a resolver run.
SegmentGap == 20

\* The similarity threshold imported from the mediawiki module.
FUZZ_THRESHOLD == 90

\* The scorer extractOne applies by default (rapidfuzz WRatio), on the names
\* of the resolver runs, rounded down; equal texts score 100, and a text
\* outside the table is unlike every other.
ScoreTable ==
    {<<{MrDarcy, Darcy}, 90>>, <<{MrDarcy, MrDarcey}, 94>>,
     <<{Darcy, MrDarcey}, 72>>, <<{Elizabeth, MrDarcy}, 11>>,
     <<{Elizabeth, Darcy}, 18>>, <<{Elizabeth, MrDarcey}, 21>>}

Score(query, choice) ==
    IF query = choice THEN 100
    ELSE IF \E e \in ScoreTable : e[1] = {query, choice}
    THEN (CHOOSE e \in ScoreTable : e[1] = {query, choice})[2]
    ELSE 0

\* rapidfuzz.process.extractOne(query, choices, score_cutoff=cutoff): the
\* position in choices of the best-scoring choice, the earliest one on a tie,
\* when its score is at least the cutoff; 0 (None) otherwise.
RECURSIVE extractOneFrom(_, _, _, _, _)
extractOneFrom(query, choices, i, best, best_score) ==
    IF i > Len(choices) THEN best
    ELSE LET sc == Score(query, choices[i]) IN
         IF sc >= best_score /\ (best = 0 \/ sc > best_score)
         THEN extractOneFrom(query, choices, i + 1, i, sc)
         ELSE extractOneFrom(query, choices, i + 1, best, best_score)

extractOne_StrictCutoff(query, choices, cutoff) ==
    extractOneFrom(query, choices, 1, 0, cutoff + 1)

extractOne(query, choices, cutoff) ==
    extractOneFrom(query, choices, 1, 0, cutoff)

\* self.entities.keys()
Keys(ents) == [i \in DOMAIN ents |-> ents[i].key]

\* self.entities[key] = value: in place for a present key, else appended.
DictSet(ents, key, value) ==
    LET item == [key |-> key, id |-> value.id, label |-> value.label,
                 quote |-> value.quote]
    IN IF \E i \in DOMAIN ents : ents[i].key = key
       THEN [i \in DOMAIN ents |-> IF ents[i].key = key THEN item ELSE ents[i]]
       ELSE Append(ents, item)

\* self.entity_occurrences[path].append(occ) on the defaultdict(list).
OccAppend(eo, path, occ) ==
    IF \E i \in DOMAIN eo : eo[i].path = path
    THEN [i \in DOMAIN eo |->
            IF eo[i].path = path
            THEN [path |-> path, occs |-> Append(eo[i].occs, occ)]
            ELSE eo[i]]
    ELSE Append(eo, [path |-> path, occs |-> <<occ>>])

\* The state of one X_Ray_EPUB object the resolver works on.
Self == [entity_id |-> entity_id, entities |-> entities,
         entity_occurrences |-> entity_occurrences]

\* x_ray_epub.py:97-100: the id the occurrence gets; r is extractOne's
\* result, 0 for None.
ResolvedId_Counter(self, r) == self.entity_id

ResolvedId(self, r) ==
    IF r # 0 THEN self.entities[r].id ELSE self.entity_id

\* x_ray_epub.py:101-105: the dict after the call.
EntitiesAfter_LastSeen(self, r, entity, ner_label, quote) ==
    IF r # 0
    THEN [self.entities EXCEPT ![r].quote = quote]
    ELSE DictSet(self.entities, entity,
                 [id |-> self.entity_id, label |-> ner_label, quote |-> quote])

EntitiesAfter(self, r, entity, ner_label, quote) ==
    IF r # 0 THEN self.entities
    ELSE DictSet(self.entities, entity,
                 [id |-> self.entity_id, label |-> ner_label, quote |-> quote])

\* x_ray_epub.py:106: the counter after the call.
CounterAfter_Always(self, r) == self.entity_id + 1

CounterAfter(self, r) ==
    IF r # 0 THEN self.entity_id ELSE self.entity_id + 1

\* X_Ray_EPUB.add_entity: the object after the call.
add_entity(self, entity, ner_label, quote, start, end, xhtml_path) ==
    LET r == extractOne(entity, Keys(self.entities), FUZZ_THRESHOLD)
    IN [entity_id |-> CounterAfter(self, r),
        entities |-> EntitiesAfter(self, r, entity, ner_label, quote),
        entity_occurrences |->
            OccAppend(self.entity_occurrences, xhtml_path,
                      <<start, end, entity, ResolvedId(self, r)>>)]

InitEntities ==
    /\ IdleEntities /\ IdleOffsets /\ IdleAnchors /\ IdleExtract
    /\ IdleNer
    /\ IdleModify
    /\ IdleLemma
    /\ IdleFoot
    /\ IdleWikt
    /\ IdleDump
    /\ IdleJob
    /\ IdleFiles

\* One call of add_entity, with any arguments.
AddEntity ==
    /\ calls < MaxCalls
    /\ \E entity \in Names, ner_label \in Labels, quote \in Quotes,
          xhtml_path \in Parts :
          LET start == SegmentGap * calls
              after == add_entity(Self, entity, ner_label, quote, start,
                                  start + Len(entity), xhtml_path)
          IN /\ entity_id' = after.entity_id
             /\ entities' = after.entities
             /\ entity_occurrences' = after.entity_occurrences
             /\ last_call' = [entity |-> entity, label |-> ner_label,
                              quote |-> quote, start |-> start,
                              end |-> start + Len(entity), path |-> xhtml_path]
    /\ calls' = calls + 1
    /\ UNCHANGED exceptEntities

NextEntities == AddEntity

SpecEntities == InitEntities /\ [][NextEntities]_vars

\* ---------------------------------------------------- claims: add_entity
\* The greatest element of a non-empty set of numbers.
MaxOf(S) == CHOOSE x \in S : \A y \in S : y <= x

\* The similarity of a candidate to each known key.
ScoresOf(cand, ents) == {Score(cand, ents[i].key) : i \in DOMAIN ents}

\* The candidate is at or above the threshold for some known key.
Folds(cand, ents) == \E sc \in ScoresOf(cand, ents) : sc >= FUZZ_THRESHOLD

\* The occurrences recorded for one part.
OccsOf(eo, path) ==
    IF \E i \in DOMAIN eo : eo[i].path = path
    THEN eo[CHOOSE i \in DOMAIN eo : eo[i].path = path].occs
    ELSE <<>>

\* Every recorded occurrence, of every part.
AllOccs(eo) == UNION {{eo[i].occs[j] : j \in DOMAIN eo[i].occs} : i \in DOMAIN eo}

\* Number of recorded occurrences.
RECURSIVE OccCount(_)
OccCount(eo) == IF eo = <<>> THEN 0 ELSE Len(Head(eo).occs) + OccCount(Tail(eo))

\* The occurrence the latest call recorded.
LastOcc(eo, path) == OccsOf(eo, path)[Len(OccsOf(eo, path))]

\* C2: a candidate whose best similarity to the known keys is at or above
\* FUZZ_THRESHOLD gets the id of a best-matching entity and creates nothing;
\* any other candidate creates the entity (key = candidate, id = counter,
\* quote = the call's quote) and increments the counter. With "Mr. Darcy" known
\* as id 0, "Darcy" resolves to id 0 and "Elizabeth" creates id 1.
C2_ResolutionRule ==
    [][calls' = calls + 1 =>
        LET a == last_call'
            occ == LastOcc(entity_occurrences', a.path)
        IN /\ occ[3] = a.entity
           /\ IF Folds(a.entity, entities)
              THEN /\ \E i \in DOMAIN entities :
                        /\ Score(a.entity, entities[i].key)
                             = MaxOf(ScoresOf(a.entity, entities))
                        /\ occ[4] = entities[i].id
                   /\ entities' = entities
                   /\ entity_id' = entity_id
              ELSE /\ entities' = Append(entities,
                        [key |-> a.entity, id |-> entity_id,
                         label |-> a.label, quote |-> a.quote])
                   /\ occ[4] = entity_id
                   /\ entity_id' = entity_id + 1
           /\ (Keys(entities) = <<MrDarcy>> /\ entities[1].id = 0) =>
                /\ a.entity = Darcy => (occ[4] = 0 /\ entities' = entities)
                /\ a.entity = Elizabeth =>
                     (occ[4] = 1 /\ Keys(entities') = <<MrDarcy, Elizabeth>>)
    ]_vars

\* "Mr. Darcy" is entity 0, "Darcy" was folded into it, "Elizabeth" is entity 1.
C2_Witness ==
    /\ Keys(entities) = <<MrDarcy, Elizabeth>>
    /\ entities[1].id = 0
    /\ entities[2].id = 1
    /\ \E occ \in AllOccs(entity_occurrences) : occ[3] = Darcy /\ occ[4] = 0

\* C3: the ids of the entity table are exactly 0..n-1 for its n entities, the
\* counter is n, and an entity created earlier has the smaller id.
C3_DenseIds ==
    /\ {entities[i].id : i \in DOMAIN entities} = 0..(Len(entities) - 1)
    /\ entity_id = Len(entities)
    /\ \A i, j \in DOMAIN entities : i < j => entities[i].id < entities[j].id

\* Two entities were created and one of three calls was folded.
C3_Witness ==
    /\ Len(entities) = 2
    /\ calls = 3
    /\ entity_id = 2

\* C4: every recorded occurrence carries the id of exactly one entity of the
\* table.
C4_ValidEntityId ==
    \A occ \in AllOccs(entity_occurrences) :
        Cardinality({i \in DOMAIN entities : entities[i].id = occ[4]}) = 1

\* Occurrences of two entities are recorded for two parts.
C4_Witness ==
    /\ Len(entity_occurrences) = 2
    /\ Cardinality({occ[4] : occ \in AllOccs(entity_occurrences)}) = 2

\* C5: an entity once created keeps its key, id, label and quote; a call that
\* folds its candidate leaves the table and the counter alone and appends
\* exactly one occurrence.
C5_FirstSeenWins ==
    [][/\ \A i \in DOMAIN entities :
            i \in DOMAIN entities' /\ entities'[i] = entities[i]
       /\ (calls' = calls + 1 /\ Folds(last_call'.entity, entities)) =>
            /\ entities' = entities
            /\ entity_id' = entity_id
            /\ OccCount(entity_occurrences') = OccCount(entity_occurrences) + 1
            /\ \A p \in Parts :
                 LET before == OccsOf(entity_occurrences, p)
                     after == OccsOf(entity_occurrences', p)
                 IN Len(after) >= Len(before)
                    /\ SubSeq(after, 1, Len(before)) = before
    ]_vars

\* A candidate was folded into an entity whose label and quote differ from the
\* call's.
C5_Witness ==
    /\ calls >= 2
    /\ Len(entities) = 1
    /\ OccCount(entity_occurrences) = calls
    /\ last_call.quote # entities[1].quote
    /\ last_call.label # entities[1].label

\* ---------------------------------------------------- Document Annotator
\* The smaller of two numbers.
Min(a, b) == IF a < b THEN a ELSE b

\* t[a:b] for 0 <= a, b: empty when b <= a, clipped to the length of t.
Slice(t, a, b) == SubSeq(t, Min(a, Len(t)) + 1, Min(b, Len(t)))

\* A rewritten document is a sequence of items: a character <<"c", cp>>, the
\* opening tag of an anchor <<"a", id>> (href="x_ray.xhtml#id") and its
\* closing tag <<"/a", 0>>.
Chars(t) == [i \in DOMAIN t |-> <<"c", t[i]>>]

\* x_ray_epub.py:131  <a epub:type="noteref" href="x_ray.xhtml#{id}">{entity}</a>
Anchor(id, entity) == <<<<"a", id>>>> \o Chars(entity) \o <<<<"/a", 0>>>>

\* x_ray_epub.py:132  last_end = end
CutPoint_Start(start, end) == start

CutPoint(start, end) == end

\* x_ray_epub.py:126-133: the loop over the occurrences from the k-th on, with
\* the text built so far and the cut point, then the tail.
RECURSIVE InsertFrom(_, _, _, _, _)
InsertFrom(body, list, k, built, last_end) ==
    IF k > Len(list) THEN built \o Chars(Slice(body, last_end, Len(body)))
    ELSE LET data == list[k] IN
         InsertFrom(body, list, k + 1,
                    built \o Chars(Slice(body, last_end, data[1]))
                          \o Anchor(data[4], data[3]),
                    CutPoint(data[1], data[2]))

\* x_ray_epub.py:126-133: the rewritten body of one part.
InsertAnchors(body, list) == InsertFrom(body, list, 1, <<>>, 0)

BodyAlphabet == {Ord("a"), Ord("b")}
EntityIds == {0, 1}

\* The occurrence lists the law is about: at most n occurrences of body from
\* offset from on, ascending, not overlapping, each carrying the text it spans.
RECURSIVE SortedLists(_, _, _)
SortedLists(body, from, n) ==
    {<<>>} \cup
    (IF n = 0 THEN {}
     ELSE UNION {UNION {{<<<<st, en, Slice(body, st, en), id>>>> \o rest :
                           rest \in SortedLists(body, en, n - 1)} :
                        en \in (st + 1)..Len(body), id \in EntityIds} :
                 st \in from..(Len(body) - 1)})

InitAnchors ==
    /\ IdleEntities
    /\ IdleOffsets
    /\ IdleExtract
    /\ IdleNer
    /\ IdleModify
    /\ IdleLemma
    /\ IdleFoot
    /\ IdleWikt
    /\ IdleDump
    /\ IdleJob
    /\ IdleFiles
    /\ body_str \in SeqUpTo(BodyAlphabet, MaxBody)
    /\ entity_list \in SortedLists(body_str, 0, MaxAnchors)
    /\ s = <<>>
    /\ pcA = "ready"

\* The rewrite of one part by insert_anchor_elements.
InsertAnchorElements ==
    /\ pcA = "ready"
    /\ s' = InsertAnchors(body_str, entity_list)
    /\ pcA' = "done"
    /\ UNCHANGED <<body_str, entity_list, exceptAnchors>>

NextAnchors == InsertAnchorElements

SpecAnchors == InitAnchors /\ [][NextAnchors]_vars

\* ----------------------------------------- claims: insert_anchor_elements
\* The document with the anchor markup removed.
RECURSIVE StripMarkup(_)
StripMarkup(doc) ==
    IF doc = <<>> THEN <<>>
    ELSE IF Head(doc)[1] = "c" THEN <<Head(doc)[2]>> \o StripMarkup(Tail(doc))
    ELSE StripMarkup(Tail(doc))

\* The positions of the opening tags of a document, in order.
OpenTags(doc) ==
    LET P == {i \in DOMAIN doc : doc[i][1] = "a"}
        RECURSIVE Asc(_)
        Asc(Q) == IF Q = {} THEN <<>>
                  ELSE LET m == CHOOSE x \in Q : \A y \in Q : x <= y
                       IN <<m>> \o Asc(Q \ {m})
    IN Asc(P)

\* The position of the first closing tag after position i (0: none).
CloseAfter(doc, i) ==
    IF \E j \in (i + 1)..Len(doc) : doc[j][1] = "/a"
    THEN CHOOSE j \in (i + 1)..Len(doc) :
            doc[j][1] = "/a" /\ \A m \in (i + 1)..(j - 1) : doc[m][1] # "/a"
    ELSE 0

\* What the k-th anchor of a document says: the (start, end) of its wrapped
\* text in the document without markup, the wrapped text and the id.
AnchorAt(doc, k) ==
    LET i == OpenTags(doc)[k]
        j == CloseAfter(doc, i)
        st == Len(StripMarkup(SubSeq(doc, 1, i)))
        wrapped == StripMarkup(SubSeq(doc, i + 1, j - 1))
    IN <<st, st + Len(wrapped), wrapped, doc[i][2]>>

\* C1: idempotent-offsets law of insert_anchor_elements: for occurrences that
\* are sorted, non-overlapping and carry the text they span, the k-th anchor
\* wraps the k-th occurrence's text at its original (start, end) with its id,
\* the rewritten body without the markup is the original body, and with no
\* occurrence the body is unchanged.
C1_IdempotentOffsets ==
    pcA = "done" =>
        /\ StripMarkup(s) = body_str
        /\ Len(OpenTags(s)) = Len(entity_list)
        /\ \A k \in DOMAIN entity_list :
             /\ CloseAfter(s, OpenTags(s)[k]) # 0
             /\ AnchorAt(s, k) = entity_list[k]
             /\ Slice(body_str, AnchorAt(s, k)[1], AnchorAt(s, k)[2])
                  = entity_list[k][3]
        /\ entity_list = <<>> => s = Chars(body_str)

\* Two adjacent-or-apart occurrences were wrapped, the first not at offset 0.
C1_Witness ==
    /\ pcA = "done"
    /\ Len(entity_list) = 2
    /\ entity_list[1][1] > 0
    /\ Len(body_str) > entity_list[2][2]
    /\ Len(s) = Len(body_str) + 4

\* ------------------------------------------------------ Segment Extractor
Lt == Ord("<")
Gt == Ord(">")

\* buf[i] for a 0-based offset i.
At(buf, i) == buf[i + 1]

\* The 0-based offset of the first character from offset i on that ends a run
\* of [^<>] (stop_gt) or of [^<] (otherwise); Len(buf) when the run reaches
\* the end of the buffer.
RECURSIVE RunEnd(_, _, _)
RunEnd(buf, i, stop_gt) ==
    IF i >= Len(buf) THEN Len(buf)
    ELSE IF At(buf, i) = Lt \/ (stop_gt /\ At(buf, i) = Gt) THEN i
    ELSE RunEnd(buf, i + 1, stop_gt)

\* The regular expression matches at offset i: b'>[^<>]+<' (stop_gt,
\* parse_job.py:76) or r'>[^<]+<' (x_ray_epub.py:91). The run is greedy, and
\* no shorter run is followed by '<'.
MatchesAt(buf, i, stop_gt) ==
    LET e == RunEnd(buf, i + 1, stop_gt) IN
    /\ i < Len(buf)
    /\ At(buf, i) = Gt
    /\ e > i + 1
    /\ e < Len(buf)
    /\ At(buf, e) = Lt

\* A search that starts over at the head of the buffer.
NextMatch_FromStart(buf, pos, stop_gt) ==
    IF \E i \in 0..(Len(buf) - 1) : MatchesAt(buf, i, stop_gt)
    THEN LET i == CHOOSE j \in 0..(Len(buf) - 1) :
                    /\ MatchesAt(buf, j, stop_gt)
                    /\ \A m \in 0..(j - 1) : ~MatchesAt(buf, m, stop_gt)
         IN <<i, RunEnd(buf, i + 1, stop_gt) + 1>>
    ELSE <<>>

\* re.finditer's next match from offset pos on: <<start, end>> of the match
\* (end exclusive), or <<>> when there is none.
NextMatch(buf, pos, stop_gt) ==
    IF \E i \in pos..(Len(buf) - 1) : MatchesAt(buf, i, stop_gt)
    THEN LET i == CHOOSE j \in pos..(Len(buf) - 1) :
                    /\ MatchesAt(buf, j, stop_gt)
                    /\ \A m \in pos..(j - 1) : ~MatchesAt(buf, m, stop_gt)
         IN <<i, RunEnd(buf, i + 1, stop_gt) + 1>>
    ELSE <<>>

\* parse_job.py:77 / x_ray_epub.py:92: the segment of a match: its start is
\* the offset of the first content character.
SegmentStart(m) == m[1] + 1

SegmentOf(buf, m, part) ==
    [start |-> SegmentStart(m), text |-> Slice(buf, m[1] + 1, m[2] - 1),
     part |-> part]

\* parse_job.py:52-53: the segment of a content block.
KfxSegment(entry) ==
    [start |-> entry.position, text |-> entry.content, part |-> ""]

\* x_ray_epub.py:75-92: the first part from k on holding a match from pos on
\* (pos applies to part k only), with the match: <<part, start, end>>, or <<>>.
RECURSIVE NextEpubMatch(_, _, _)
NextEpubMatch(parts, k, pos) ==
    IF k > Len(parts) THEN <<>>
    ELSE LET m == NextMatch(parts[k].body, pos, FALSE) IN
         IF m # <<>> THEN <<k, m[1], m[2]>>
         ELSE NextEpubMatch(parts, k + 1, 0)

HtmlAlphabet == {Lt, Gt, Ord("a")}
BodyOpen == Str(<<"<", "b", "o", "d", "y", ">">>)
BodyClose == Str(<<"<", "/", "b", "o", "d", "y", ">">>)

\* The 'data' entries of a KFX container's JSON: content blocks in reading
\* order, each at the position after the previous block or later.
RECURSIVE KfxEntries(_, _)
KfxEntries(from, n) ==
    {<<>>} \cup
    (IF n = 0 THEN {}
     ELSE UNION {UNION {{<<[position |-> p, content |-> c]>> \o rest :
                           rest \in KfxEntries(p + Len(c), n - 1)} :
                        c \in SeqUpTo({Ord("a")}, MaxContent) \ {<<>>}} :
                 p \in from..(from + MaxContent)})

\* The document parts of an EPUB: one or two files, each with a body.
EpubBodies == {BodyOpen \o mid \o BodyClose : mid \in SeqUpTo(HtmlAlphabet, MaxMarkup)}
EpubBooks ==
    {<<[path |-> "ch1.xhtml", body |-> b]>> : b \in EpubBodies} \cup
    {<<[path |-> "ch1.xhtml", body |-> b1], [path |-> "ch2.xhtml", body |-> b2]>> :
        b1 \in EpubBodies, b2 \in EpubBodies}

InitExtract ==
    /\ IdleEntities
    /\ IdleOffsets
    /\ IdleAnchors
    /\ IdleNer
    /\ IdleModify
    /\ IdleLemma
    /\ IdleFoot
    /\ IdleWikt
    /\ IdleDump
    /\ IdleJob
    /\ IdleFiles
    /\ book_fmt \in {"KFX", "MOBI", "EPUB"}
    /\ container \in
         IF book_fmt = "KFX" THEN KfxEntries(0, MaxEntries)
         ELSE IF book_fmt = "MOBI" THEN SeqUpTo(HtmlAlphabet, MaxHtml)
         ELSE EpubBooks
    /\ scan = [part |-> 1, pos |-> 0]
    /\ segments = <<>>
    /\ pcS = "run"

\* A generator runs on only when its consumer asks for the next segment: the
\* annotation run has processed every segment yielded so far.
Consumed == pcN = "idle" \/ (pcN = "run" /\ ner_done = Len(segments))

\* parse_kfx: the next content block is yielded.
ParseKfxYield ==
    /\ pcS = "run" /\ book_fmt = "KFX"
    /\ Consumed
    /\ scan.part <= Len(container)
    /\ segments' = Append(segments, KfxSegment(container[scan.part]))
    /\ scan' = [scan EXCEPT !.part = @ + 1]
    /\ UNCHANGED <<book_fmt, container, pcS, exceptExtract>>

\* parse_kfx: the blocks are exhausted.
ParseKfxEnd ==
    /\ pcS = "run" /\ book_fmt = "KFX"
    /\ Consumed
    /\ scan.part > Len(container)
    /\ pcS' = "done"
    /\ UNCHANGED <<book_fmt, container, scan, segments, exceptExtract>>

Unsupported_None(kf8) == FALSE

\* parse_job.py:63  mr.kf8_type == 'joint'
Unsupported(kf8) == kf8 = "joint"

\* parse_mobi: a joint book raises Exception('JointMOBI') when the generator
\* is started.
ParseMobiRaise ==
    /\ pcS = "run" /\ book_fmt = "MOBI"
    /\ Consumed
    /\ Unsupported(kf8_type)
    /\ pcS' = "raised"
    /\ UNCHANGED <<book_fmt, container, scan, segments, exceptExtract>>

\* parse_mobi: the next text between tags is yielded.
ParseMobiYield ==
    /\ pcS = "run" /\ book_fmt = "MOBI"
    /\ Consumed
    /\ ~Unsupported(kf8_type)
    /\ LET m == NextMatch(container, scan.pos, TRUE) IN
         /\ m # <<>>
         /\ segments' = Append(segments, SegmentOf(container, m, ""))
         /\ scan' = [scan EXCEPT !.pos = m[2]]
    /\ UNCHANGED <<book_fmt, container, pcS, exceptExtract>>

\* parse_mobi: no further match.
ParseMobiEnd ==
    /\ pcS = "run" /\ book_fmt = "MOBI"
    /\ Consumed
    /\ ~Unsupported(kf8_type)
    /\ NextMatch(container, scan.pos, TRUE) = <<>>
    /\ pcS' = "done"
    /\ UNCHANGED <<book_fmt, container, scan, segments, exceptExtract>>

\* extract_epub: the next text between tags, of this part or of a later one,
\* is yielded.
ExtractEpubYield ==
    /\ pcS = "run" /\ book_fmt = "EPUB"
    /\ Consumed
    /\ LET m == NextEpubMatch(container, scan.part, scan.pos) IN
         /\ m # <<>>
         /\ segments' = Append(segments,
                SegmentOf(container[m[1]].body, <<m[2], m[3]>>,
                          container[m[1]].path))
         /\ scan' = [part |-> m[1], pos |-> m[3]]
    /\ UNCHANGED <<book_fmt, container, pcS, exceptExtract>>

\* extract_epub: no further match in any part.
ExtractEpubEnd ==
    /\ pcS = "run" /\ book_fmt = "EPUB"
    /\ Consumed
    /\ NextEpubMatch(container, scan.part, scan.pos) = <<>>
    /\ pcS' = "done"
    /\ UNCHANGED <<book_fmt, container, scan, segments, exceptExtract>>

NextExtract ==
    \/ ParseKfxYield \/ ParseKfxEnd
    \/ ParseMobiYield \/ ParseMobiEnd
    \/ ExtractEpubYield \/ ExtractEpubEnd

SpecExtract == InitExtract /\ [][NextExtract]_vars

\* --------------------------------------------------- claims: extractors
\* Two successive segments are in order and do not overlap.
InOrder(a, b) == a.start <= b.start /\ a.start + Len(a.text) <= b.start

ByteOffset_Codepoints(anchor, t, i) == anchor + Len(Prefix(t, i))

ByteOffset(anchor, t, i) == anchor + Len(Encode(Prefix(t, i)))

\* parse_job.py:116  token_start += len(text[:index])
CodepointOffset(anchor, t, i) == anchor + Len(Prefix(t, i))

\* The reverse rule of the Offset Translator: the number of codepoints of the
\* byte prefix; -1 when the prefix does not decode (UnicodeDecodeError).
CodepointOfByteOffset(anchor, bs, b) ==
    IF b \in 0..Len(bs) /\ Decodable(Prefix(bs, b))
    THEN anchor + Len(Decode(Prefix(bs, b)))
    ELSE -1

InitOffsets ==
    /\ IdleEntities
    /\ IdleAnchors
    /\ IdleExtract
    /\ IdleNer
    /\ IdleModify
    /\ IdleLemma
    /\ IdleFoot
    /\ IdleWikt
    /\ IdleDump
    /\ IdleJob
    /\ IdleFiles
    /\ text \in SeqUpTo(WidthAlphabet, MaxLen)
    /\ index \in 0..Len(text)
    /\ byte_index = -1
    /\ back_index = -1
    /\ pcT = "start"

ToByteOffset ==
    /\ pcT = "start"
    /\ byte_index' = ByteOffset(0, text, index)
    /\ pcT' = "byte"
    /\ UNCHANGED <<text, index, back_index, exceptOffsets>>

ToCodepointOffset ==
    /\ pcT = "byte"
    /\ back_index' = CodepointOfByteOffset(0, Encode(text), byte_index)
    /\ pcT' = "done"
    /\ UNCHANGED <<text, index, byte_index, exceptOffsets>>

NextOffsets == ToByteOffset \/ ToCodepointOffset

SpecOffsets == InitOffsets /\ [][NextOffsets]_vars

\* C8: Offset Translator round trip: a codepoint offset converted to a byte
\* offset and back is the codepoint offset it started from.
C8_RoundTrip == pcT = "done" => back_index = index

\* A round trip over a buffer holding a multi-byte codepoint before the offset.
C8_Witness ==
    /\ pcT = "done"
    /\ index >= 2
    /\ byte_index > index
    /\ back_index = index

\* -------------------------------------------------------- the tagger
Space == Ord(" ")
Dot == Ord(".")

\* \w of a str pattern: letters (U+00E9 among them), digits and '_'.
IsWord(c) ==
    \/ c >= 65 /\ c <= 90
    \/ c >= 97 /\ c <= 122
    \/ c >= 48 /\ c <= 57
    \/ c = 95
    \/ c = CpEAcute

\* nltk.word_tokenize, on the texts of the runs: a token is a maximal run of
\* word characters or one punctuation character; spaces separate tokens.
RECURSIVE TokenizeFrom(_, _, _)
TokenizeFrom(t, i, cur) ==
    LET flushed == IF cur = <<>> THEN <<>> ELSE <<cur>> IN
    IF i > Len(t) THEN flushed
    ELSE IF IsWord(t[i]) THEN TokenizeFrom(t, i + 1, Append(cur, t[i]))
    ELSE IF t[i] = Space THEN flushed \o TokenizeFrom(t, i + 1, <<>>)
    ELSE flushed \o <<<<t[i]>>>> \o TokenizeFrom(t, i + 1, <<>>)

word_tokenize(t) == TokenizeFrom(t, 1, <<>>)

\* ' '.join(leaves)
RECURSIVE JoinTokens(_)
JoinTokens(leaves) ==
    IF leaves = <<>> THEN <<>>
    ELSE IF Len(leaves) = 1 THEN leaves[1]
    ELSE leaves[1] \o <<Space>> \o JoinTokens(Tail(leaves))

\* The text and the span of the end-to-end scenario; a node of the tagger has
\* at most as many tokens as that span.
WizardText ==
    Str(<<"T", "h", "e", " ", "W", "i", "z", "a", "r", "d", " ", "o", "f", " ",
          "O", "z", " ", "l", "i", "v", "e", "d", " ", "i", "n", " ",
          "K", "a", "n", "s", "a", "s", ".">>)
WizardOfOz ==
    Str(<<"W", "i", "z", "a", "r", "d", " ", "o", "f", " ", "O", "z">>)
MaxSpanTokens == Len(word_tokenize(WizardOfOz))

\* The labels of the nodes of the runs. find_named_entity passes a node's
\* label on without reading it, so one label stands for all.
NodeLabels == {"PERSON"}

\* ne_chunk(pos_tag(tokens)): the Tree nodes of the result. The tagger is
\* external: any choice of at most n labelled runs of consecutive tokens, each
\* of at most MaxSpanTokens tokens, disjoint and in text order, from token
\* from on.
RECURSIVE NodeLists(_, _, _)
NodeLists(toks, from, n) ==
    {<<>>} \cup
    (IF n = 0 THEN {}
     ELSE UNION {UNION {{<<[leaves |-> SubSeq(toks, a, b), label |-> l]>> \o rest :
                           rest \in NodeLists(toks, b + 1, n - 1)} :
                        b \in a..Min(a + MaxSpanTokens - 1, Len(toks)),
                        l \in NodeLabels} :
                 a \in from..Len(toks)})

Taggings(t) == NodeLists(word_tokenize(t), 1, MaxSpans)

\* ------------------------------------------------- find_named_entity
\* \b at the 0-based offset i of t: exactly one of the characters before and
\* after i is a word character.
Boundary(t, i) ==
    (i >= 1 /\ IsWord(t[i])) # (i < Len(t) /\ IsWord(t[i + 1]))

\* The token, read as the regular expression it is pasted into, matches t at
\* the 0-based offset i: '.' matches any character, every other character of
\* the runs matches itself.
PatternAt(token, t, i) ==
    /\ i + Len(token) <= Len(t)
    /\ \A k \in DOMAIN token : token[k] = Dot \/ token[k] = t[i + k]

WordMatchAt(token, t, i) ==
    /\ PatternAt(token, t, i)
    /\ Boundary(t, i)
    /\ Boundary(t, i + Len(token))

\* parse_job.py:109  re.search(r'\b' + token + r'\b', text): match.start(),
\* or -1 for None.
re_search(token, t) ==
    IF \E i \in 0..Len(t) : WordMatchAt(token, t, i)
    THEN CHOOSE i \in 0..Len(t) :
            /\ WordMatchAt(token, t, i)
            /\ \A m \in 0..(i - 1) : ~WordMatchAt(token, t, m)
    ELSE -1

\* The resolver find_named_entity hands a located span to. For a document
\* annotated in place it is add_entity; the span ends its own length, in the
\* unit of the segment, after its start.
x_ray_search(self, token, label, token_start, quote, bytes_str, part) ==
    add_entity(self, token, label, quote, token_start,
               token_start + (IF bytes_str THEN Len(Encode(token))
                              ELSE Len(token)),
               part)

\* parse_job.py:111-116: the offset of a match at index, in the segment's unit.
TokenStart(start, t, i, bytes_str) ==
    IF bytes_str THEN ByteOffset(start, t, i) ELSE CodepointOffset(start, t, i)

\* parse_job.py:104-117: the loop over the nodes from the k-th on; t is the
\* decoded text, records the tokens seen in this segment.
RECURSIVE NerLoop(_, _, _, _, _, _, _, _)
NerLoop(self, nodes, k, records, start, t, bytes_str, part) ==
    IF k > Len(nodes) THEN self
    ELSE LET token == JoinTokens(nodes[k].leaves)
             i == re_search(token, t)
         IN IF Len(token) < 3 \/ token \in records
            THEN NerLoop(self, nodes, k + 1, records, start, t, bytes_str, part)
            ELSE IF i = -1
            THEN NerLoop(self, nodes, k + 1, records \cup {token}, start, t,
                         bytes_str, part)
            ELSE NerLoop(x_ray_search(self, token, nodes[k].label,
                                      TokenStart(start, t, i, bytes_str),
                                      Slice(t, i, Len(t)), bytes_str, part),
                         nodes, k + 1, records \cup {token}, start, t,
                         bytes_str, part)

\* parse_job.py:95-117: the resolver after one segment, for the nodes the
\* tagger returned.
find_named_entity(self, start, seg_text, bytes_str, part, nodes) ==
    NerLoop(self, nodes, 1, {}, start,
            IF bytes_str THEN Decode(seg_text) ELSE seg_text, bytes_str, part)

\* ------------------------------------------------------------- find_lemma
SoftHyphen == 173

\* parse_job.py:85  the class [a-zA-Z­]
IsLemmaChar(c) ==
    \/ c >= 65 /\ c <= 90
    \/ c >= 97 /\ c <= 122
    \/ c = SoftHyphen

\* The end of the run of class characters that starts at the 1-based i.
RECURSIVE LemmaRunEnd(_, _)
LemmaRunEnd(t, i) ==
    IF i <= Len(t) /\ IsLemmaChar(t[i]) THEN LemmaRunEnd(t, i + 1) ELSE i - 1

\* parse_job.py:85  re.finditer(r'[a-zA-Z­]{3,}', text) from the 1-based
\* i on: the matches [start, group], start 0-based.
RECURSIVE LemmaMatches(_, _)
LemmaMatches(t, i) ==
    IF i > Len(t) THEN <<>>
    ELSE LET e == LemmaRunEnd(t, i) IN
         IF e - i + 1 >= 3
         THEN <<[start |-> i - 1, group |-> SubSeq(t, i, e)]>>
              \o LemmaMatches(t, e + 1)
         ELSE LemmaMatches(t, IF e < i THEN i + 1 ELSE e + 1)

\* str.replace('­', '')
RECURSIVE RemoveSoftHyphens(_)
RemoveSoftHyphens(t) ==
    IF t = <<>> THEN <<>>
    ELSE IF Head(t) = SoftHyphen THEN RemoveSoftHyphens(Tail(t))
    ELSE <<Head(t)>> \o RemoveSoftHyphens(Tail(t))

\* str.lower(), on the characters of the class
ToLower(t) == [i \in DOMAIN t |-> IF t[i] >= 65 /\ t[i] <= 90 THEN t[i] + 32 ELSE t[i]]

\* parse_job.py:86  the argument of wn.morphy for a match
MorphyArg(group) == ToLower(RemoveSoftHyphens(group))

\* None, as a value no word is equal to.
None == <<0>>

\* wn.morphy, the morphological lookup of the runs: the base form of a word
\* WordNet knows, None for any other string.
Morphy(word) ==
    CASE word = Str(<<"l", "i", "v", "e", "d">>) -> Str(<<"l", "i", "v", "e">>)
      [] word = Str(<<"a", "b", "s">>) -> Str(<<"a", "b">>)
      [] word \in {Str(<<"a", "d", "a">>), Str(<<"a", "b", "a">>),
                   Str(<<"k", "a", "n", "s", "a", "s">>),
                   Str(<<"a", "b">>)} -> word
      [] OTHER -> None

\* The keys of data/lemmas.json in the runs.
Lemmas == {Str(<<"l", "i", "v", "e">>), Str(<<"a", "d", "a">>),
           Str(<<"a", "b">>)}

\* parse_job.py:86-92: the calls on ll_conn for the matches from the k-th on.
RECURSIVE LemmaInserts(_, _, _, _, _)
LemmaInserts(ms, k, start, t, bytes_str) ==
    IF k > Len(ms) THEN <<>>
    ELSE LET lemma == Morphy(MorphyArg(ms[k].group))
             at == IF bytes_str THEN ByteOffset(start, t, ms[k].start)
                   ELSE start + ms[k].start
         IN (IF lemma \in Lemmas THEN <<<<"insert", at, lemma>>>> ELSE <<>>)
            \o LemmaInserts(ms, k + 1, start, t, bytes_str)

find_lemma_Committing(start, seg_text, bytes_str) ==
    LET t == IF bytes_str THEN Decode(seg_text) ELSE seg_text IN
    LemmaInserts(LemmaMatches(t, 1), 1, start, t, bytes_str) \o <<<<"commit">>>>

\* parse_job.py:80-92: the calls find_lemma makes on ll_conn for one segment.
find_lemma(start, seg_text, bytes_str) ==
    LET t == IF bytes_str THEN Decode(seg_text) ELSE seg_text IN
    LemmaInserts(LemmaMatches(t, 1), 1, start, t, bytes_str)


\* ------------------------------------------------------------ the books
Ada == Str(<<"A", "d", "a">>)
Zoe == <<Ord("Z"), Ord("o"), CpEAcute>>
Vocabulary == {Ada, Zoe}
POpen == Str(<<"<", "p", ">">>)
PClose == Str(<<"<", "/", "p", ">">>)

\* The texts of n words.
TextsOf(n) == {JoinTokens(ws) : ws \in [1..n -> Vocabulary]}

\* The texts of the segments of a book: at most k texts of w words in all.
RECURSIVE SegTexts(_, _)
SegTexts(w, k) ==
    {<<>>} \cup
    (IF k = 0 \/ w = 0 THEN {}
     ELSE UNION {{<<tx>> \o rest : tx \in TextsOf(n), rest \in SegTexts(w - n, k - 1)} :
                 n \in 1..w})

\* <p>t</p> for each text.
RECURSIVE Paragraphs(_)
Paragraphs(texts) ==
    IF texts = <<>> THEN <<>>
    ELSE POpen \o Head(texts) \o PClose \o Paragraphs(Tail(texts))

\* The content blocks of the texts, from position p on.
RECURSIVE Blocks(_, _)
Blocks(texts, p) ==
    IF texts = <<>> THEN <<>>
    ELSE <<[position |-> p, content |-> Head(texts)]>>
         \o Blocks(Tail(texts), p + Len(Head(texts)))

\* An EPUB whose first j paragraphs are in its first part, the others in a
\* second part.
EpubOf(texts, j) ==
    IF j = Len(texts)
    THEN <<[path |-> "ch1.xhtml",
            body |-> BodyOpen \o Paragraphs(texts) \o BodyClose]>>
    ELSE <<[path |-> "ch1.xhtml",
            body |-> BodyOpen \o Paragraphs(SubSeq(texts, 1, j)) \o BodyClose],
           [path |-> "ch2.xhtml",
            body |-> BodyOpen \o Paragraphs(SubSeq(texts, j + 1, Len(texts)))
                              \o BodyClose]>>

BookTexts == SegTexts(MaxWords, MaxSegs) \ {<<>>}

\* The html of the end-to-end scenario: the text follows a '>' at byte offset
\* 1000.
WizardHtml == [i \in 1..1000 |-> Ord("a")] \o <<Gt>> \o Encode(WizardText) \o <<Lt>>

\* The books of the annotation runs, as <<format, container>>.
Books ==
    UNION {{<<"EPUB", EpubOf(texts, j)>> : j \in 1..Len(texts)} :
           texts \in BookTexts}
    \cup {<<"MOBI", Encode(Paragraphs(texts))>> : texts \in BookTexts}
    \cup {<<"KFX", Blocks(texts, 0)>> : texts \in BookTexts}
    \cup {<<"MOBI", WizardHtml>>}

\* ---------------------------------------------------- the annotation run
Init ==
    /\ IdleOffsets
    /\ IdleAnchors
    /\ IdleEntities
    /\ IdleFiles
    /\ IdleDump
    /\ IdleWikt
    /\ IdleLemma
    /\ \E b \in Books : book_fmt = b[1] /\ container = b[2]
    /\ scan = [part |-> 1, pos |-> 0]
    /\ segments = <<>>
    /\ pcS = "run"
    /\ kf8_type \in IF book_fmt = "MOBI" THEN {"joint", "other"} ELSE {"other"}
    /\ ll_conn \in IF book_fmt = "EPUB" THEN {"none"} ELSE {"none", "open"}
    /\ x_ray_pref \in IF book_fmt = "EPUB" THEN {TRUE} ELSE BOOLEAN
    /\ x_ray_db \in IF book_fmt = "EPUB" THEN {"open"}
                   ELSE IF x_ray_pref THEN {"none", "open"} ELSE {"none"}
    /\ ll_log = <<>>
    /\ ner_done = 0
    /\ tagged = <<>>
    /\ pcN = "start"
    /\ wikidata \in IF book_fmt = "EPUB" THEN BOOLEAN ELSE {FALSE}
    /\ work = IF book_fmt = "EPUB"
              THEN [k \in DOMAIN container |-> Chars(container[k].body)]
              ELSE <<>>
    /\ part_k = 0
    /\ made = <<>>
    /\ archive = <<>>
    /\ pcM = "idle"
    /\ search_people \in IF book_fmt = "EPUB" THEN BOOLEAN ELSE {FALSE}
    /\ intro_cache = IF book_fmt = "EPUB" THEN {Ada} ELSE {}
    /\ wikidata_cache = IF wikidata THEN "map" ELSE "none"
    /\ footnotes = <<>>
    /\ image_filenames = {}
    /\ pcFn = "idle"

\* parse_mobi yields bytes, parse_kfx and extract_epub yield str.
BytesStr == book_fmt = "MOBI"

\* parse_job.py:19-25: do_job returns before the loop when there is nothing
\* to write to, else it enters the loop.
NothingToDo ==
    \/ ll_conn = "none" /\ ~x_ray_pref
    \/ x_ray_pref /\ x_ray_db = "none"

Begin ==
    /\ pcN = "start"
    /\ pcN' = IF NothingToDo THEN "returned" ELSE "run"
    /\ UNCHANGED <<ner_done, tagged, entityVars, extractVars, jobVars,
                   exceptNer>>

\* The nodes the tagger may return for a text, when the X-Ray is wanted.
NodesFor(t) == IF x_ray_pref THEN Taggings(t) ELSE {<<>>}

\* The body of the loop over the segments: find_lemma on the next segment
\* when there is a language layer, find_named_entity when the X-Ray is
\* wanted, for whatever nodes the tagger returns.
FindNamedEntity ==
    /\ pcN = "run"
    /\ ner_done < Len(segments)
    /\ LET seg == segments[ner_done + 1] IN
         /\ BytesStr => Decodable(seg.text)
         /\ ll_log' = IF ll_conn = "open"
                      THEN ll_log \o find_lemma(seg.start, seg.text, BytesStr)
                      ELSE ll_log
         /\ \E nodes \in NodesFor(IF BytesStr THEN Decode(seg.text) ELSE seg.text) :
              LET after == find_named_entity(Self, seg.start, seg.text,
                                             BytesStr, seg.part, nodes)
              IN /\ entity_id' = after.entity_id
                 /\ entities' = after.entities
                 /\ entity_occurrences' = after.entity_occurrences
                 /\ tagged' = Append(tagged, nodes)
    /\ ner_done' = ner_done + 1
    /\ UNCHANGED <<pcN, kf8_type, ll_conn, x_ray_pref, x_ray_db, extractVars,
                   exceptNer>>

\* The loop ends when the generator does; an EPUB is then rewritten by
\* modify_epub.
EndOfSegments ==
    /\ pcN = "run"
    /\ pcS = "done"
    /\ ner_done = Len(segments)
    /\ pcN' = "done"
    /\ pcM' = IF book_fmt = "EPUB" THEN "query_mediawiki" ELSE pcM
    /\ UNCHANGED <<ner_done, tagged, wikidata, work, part_k, made, archive,
                   entityVars, extractVars, jobVars, exceptRun>>

\* parse_job.py:34-36: the language layer is committed and closed.
CommitAndClose ==
    /\ pcN = "done"
    /\ ll_conn = "open"
    /\ ll_log' = ll_log \o <<<<"commit">>, <<"close">>>>
    /\ ll_conn' = "closed"
    /\ UNCHANGED <<kf8_type, x_ray_pref, x_ray_db, nerVars, entityVars,
                   extractVars, exceptNer>>

\* parse_job.py:37-38: x_ray.finish() when the X-Ray is wanted; do_job
\* returns.
Finish ==
    /\ pcN = "done"
    /\ book_fmt # "EPUB"
    /\ ll_conn # "open"
    /\ x_ray_db' = IF x_ray_pref THEN "finished" ELSE x_ray_db
    /\ pcN' = "returned"
    /\ UNCHANGED <<kf8_type, ll_conn, x_ray_pref, ll_log, ner_done, tagged,
                   entityVars, extractVars, exceptNer>>

\* ------------------------------------------------------- create_footnotes
\* The person labels imported from the mediawiki module.
PERSON_LABELS == {"PERSON"}

\* html.escape: the replacement of one character: & (38) by &amp;, < by
\* &lt;, > by &gt;, " (34) by &quot; and ' (39) by &#x27;; 59 is ';'.
EscapeChar(c) ==
    IF c = 38 THEN <<38>> \o Str(<<"a", "m", "p">>) \o <<59>>
    ELSE IF c = Ord("<") THEN <<38>> \o Str(<<"l", "t">>) \o <<59>>
    ELSE IF c = Ord(">") THEN <<38>> \o Str(<<"g", "t">>) \o <<59>>
    ELSE IF c = 34 THEN <<38>> \o Str(<<"q", "u", "o", "t">>) \o <<59>>
    ELSE IF c = 39 THEN <<38, 35>> \o Str(<<"x">>) \o <<50, 55, 59>>
    ELSE <<c>>

\* html.escape
RECURSIVE escape(_)
escape(t) == IF t = <<>> THEN <<>> ELSE EscapeChar(Head(t)) \o escape(Tail(t))

\* intro_cache["intro"] of the record the cache holds for an entity.
IntroOf(entity) == Str(<<"i">>) \o <<Ord("<"), 38>> \o entity

ShowsIntro_WhenCached(sp, data, cached) == data.key \in cached

\* x_ray_epub.py:160-162: the footnote of the entity shows the cached text.
ShowsIntro(sp, data, cached) ==
    /\ sp \/ data.label \notin PERSON_LABELS
    /\ data.key \in cached

\* x_ray_epub.py:159-184: the aside element made for one entity.  The
\* element keeps the id, the text, whether it links to the source and to
\* Wikidata, and the image it shows; the regime paragraph is not kept.
FootnoteOf(data, sp, cached, wd, wd_cache) ==
    IF ShowsIntro(sp, data, cached)
    THEN [id |-> data.id,
          text |-> escape(IntroOf(data.key)),
          source_link |-> TRUE,
          wikidata_link |-> wd /\ wd_cache # "none",
          image |-> IF wd /\ wd_cache = "map" THEN <<data.key>> ELSE <<>>]
    ELSE [id |-> data.id,
          text |-> escape(data.quote),
          source_link |-> FALSE,
          wikidata_link |-> FALSE,
          image |-> <<>>]

create_footnotes_OnlyCached(ents, sp, cached, wd, wd_cache) ==
    LET page == [i \in DOMAIN SelectSeq(ents, LAMBDA d : d.key \in cached) |->
                    FootnoteOf(SelectSeq(ents, LAMBDA d : d.key \in cached)[i],
                               sp, cached, wd, wd_cache)]
    IN [footnotes |-> page,
        image_filenames |->
            UNION {{page[i].image[j] : j \in DOMAIN page[i].image} :
                      i \in DOMAIN page}]

\* create_footnotes: the page and the image file names.
create_footnotes(ents, sp, cached, wd, wd_cache) ==
    LET page == [i \in DOMAIN ents |->
                    FootnoteOf(ents[i], sp, cached, wd, wd_cache)]
    IN [footnotes |-> page,
        image_filenames |->
            UNION {{page[i].image[j] : j \in DOMAIN page[i].image} :
                      i \in DOMAIN page}]

\* ------------------------------------------------------------ modify_epub
Steps == {"query_mediawiki", "query_wikidata", "insert_anchor_elements",
          "create_footnotes", "modify_opf", "zip_extract_folder"}

StepAfter_NoManifest(step, wd) ==
    CASE step = "query_mediawiki" ->
            IF wd THEN "query_wikidata" ELSE "insert_anchor_elements"
      [] step = "query_wikidata" -> "insert_anchor_elements"
      [] step = "insert_anchor_elements" -> "create_footnotes"
      [] step = "create_footnotes" -> "zip_extract_folder"
      [] step = "modify_opf" -> "zip_extract_folder"
      [] step = "zip_extract_folder" -> "done"

\* x_ray_epub.py:110-117: the statement after a step that returned.
StepAfter(step, wd) ==
    CASE step = "query_mediawiki" ->
            IF wd THEN "query_wikidata" ELSE "insert_anchor_elements"
      [] step = "query_wikidata" -> "insert_anchor_elements"
      [] step = "insert_anchor_elements" -> "create_footnotes"
      [] step = "create_footnotes" -> "modify_opf"
      [] step = "modify_opf" -> "zip_extract_folder"
      [] step = "zip_extract_folder" -> "done"

\* A step of modify_epub returns.
Returns(step) ==
    /\ pcM = step
    /\ made' = Append(made, step)
    /\ pcM' = StepAfter(step, wikidata)

QueryMediawiki ==
    /\ Returns("query_mediawiki")
    /\ UNCHANGED <<wikidata, work, part_k, archive, exceptModify>>

QueryWikidata ==
    /\ Returns("query_wikidata")
    /\ UNCHANGED <<wikidata, work, part_k, archive, exceptModify>>

\* The part of the book a path names.
PartOf(path) == CHOOSE k \in DOMAIN container : container[k].path = path

\* insert_anchor_elements: one turn of the loop over
\* self.entity_occurrences.items() rewrites the file of one part.
RewritePart ==
    /\ pcM = "insert_anchor_elements"
    /\ part_k < Len(entity_occurrences)
    /\ LET item == entity_occurrences[part_k + 1]
           k == PartOf(item.path)
       IN work' = [work EXCEPT ![k] = InsertAnchors(container[k].body, item.occs)]
    /\ part_k' = part_k + 1
    /\ UNCHANGED <<wikidata, made, archive, pcM, exceptModify>>

\* insert_anchor_elements: the loop is over.
InsertAnchorElementsEnd ==
    /\ part_k = Len(entity_occurrences)
    /\ Returns("insert_anchor_elements")
    /\ UNCHANGED <<wikidata, work, part_k, archive, exceptModify>>

\* create_footnotes: the page x_ray.xhtml is written into the working copy.
CreateFootnotes ==
    /\ Returns("create_footnotes")
    /\ LET after == create_footnotes(entities, search_people, intro_cache,
                                     wikidata, wikidata_cache)
       IN /\ footnotes' = after.footnotes
          /\ image_filenames' = after.image_filenames
    /\ UNCHANGED <<wikidata, work, part_k, archive, search_people,
                   intro_cache, wikidata_cache, pcFn, exceptFootnotes>>

ModifyOpf ==
    /\ Returns("modify_opf")
    /\ UNCHANGED <<wikidata, work, part_k, archive, exceptModify>>

\* zip_extract_folder: the working copy, as it is, becomes the new book.
ZipExtractFolder ==
    /\ Returns("zip_extract_folder")
    /\ archive' = work
    /\ UNCHANGED <<wikidata, work, part_k, exceptModify>>

\* A step raises (a failed lookup, an unreadable or unwritable file): the
\* exception leaves modify_epub, which has no handler.
Raises ==
    /\ pcM \in Steps
    /\ pcM' = "failed"
    /\ UNCHANGED <<wikidata, work, part_k, made, archive, exceptModify>>

Next ==
    \/ ParseKfxYield \/ ParseKfxEnd
    \/ ParseMobiYield \/ ParseMobiEnd
    \/ ExtractEpubYield \/ ExtractEpubEnd
    \/ ParseMobiRaise
    \/ Begin
    \/ FindNamedEntity
    \/ EndOfSegments
    \/ CommitAndClose \/ Finish
    \/ QueryMediawiki \/ QueryWikidata
    \/ RewritePart \/ InsertAnchorElementsEnd
    \/ CreateFootnotes \/ ModifyOpf
    \/ ZipExtractFolder
    \/ Raises

Spec == Init /\ [][Next]_vars

\* ------------------------------------------------ claims of the whole run
\* A list of occurrences is sorted ascending by start and its spans do not
\* overlap.
SortedDisjoint(occs) ==
    \A i \in 1..(Len(occs) - 1) :
        /\ occs[i][1] <= occs[i + 1][1]
        /\ occs[i][2] <= occs[i + 1][1]

\* C6: when insert_anchor_elements consumes them, every per-part occurrence
\* list is sorted ascending by start and its spans do not overlap, whatever
\* spans the tagger returned and whatever the segments of the part.
C6_SortedWhenConsumed ==
    pcM = "insert_anchor_elements" =>
        \A i \in DOMAIN entity_occurrences :
            SortedDisjoint(entity_occurrences[i].occs)

\* The decoded text of the i-th segment.
SegText(i) ==
    IF BytesStr THEN Decode(segments[i].text) ELSE segments[i].text

\* The length, in the unit of the segment, of the first rel codepoints of t.
Preceding(t, rel) ==
    IF BytesStr THEN Len(Encode(SubSeq(t, 1, rel))) ELSE rel

\* C7: the start of every recorded occurrence is the start of a processed
\* segment of its part plus the length, in the segment's unit (UTF-8 bytes
\* of the decoded prefix for bytes, codepoints for str), of the text before
\* the match of a span tagged in that segment; and the text "The Wizard of Oz
\* lived in Kansas." after a '>' at byte offset 1000, tagged with the one span
\* "Wizard of Oz", gives the one occurrence (1005, 1017, "Wizard of Oz", 0).
C7_StartPerMatch ==
    /\ \A p \in DOMAIN entity_occurrences :
         \A o \in DOMAIN entity_occurrences[p].occs :
            LET occ == entity_occurrences[p].occs[o] IN
            \E i \in 1..ner_done :
               /\ segments[i].part = entity_occurrences[p].path
               /\ \E n \in DOMAIN tagged[i] :
                     LET token == JoinTokens(tagged[i][n].leaves)
                         rel == re_search(token, SegText(i))
                     IN /\ token = occ[3]
                        /\ rel # -1
                        /\ occ[1] = segments[i].start + Preceding(SegText(i), rel)
    /\ (/\ container = WizardHtml
        /\ ner_done = 1
        /\ Len(tagged[1]) = 1
        /\ JoinTokens(tagged[1][1].leaves) = WizardOfOz)
       => entity_occurrences =
             <<[path |-> "", occs |-> <<<<1005, 1017, WizardOfOz, 0>>>>]>>

C7_Witness ==
    /\ container = WizardHtml
    /\ Len(tagged) = 1
    /\ Len(tagged[1]) = 1
    /\ JoinTokens(tagged[1][1].leaves) = WizardOfOz
    /\ AllOccs(entity_occurrences) = {<<1005, 1017, WizardOfOz, 0>>}

\* Every part with occurrences has been rewritten, and the three steps before
\* the repackaging have returned.
FullRewrite ==
    /\ \A i \in DOMAIN entity_occurrences :
          LET k == PartOf(entity_occurrences[i].path) IN
          work[k] = InsertAnchors(container[k].body, entity_occurrences[i].occs)
    /\ \A step \in {"insert_anchor_elements", "create_footnotes", "modify_opf"} :
          \E i \in DOMAIN made : made[i] = step

\* C10: zip_extract_folder runs, and an archive exists, only after
\* insert_anchor_elements has rewritten every part with occurrences and
\* create_footnotes and modify_opf have returned; the archive is that working
\* copy; and after a step has failed there is no archive.
C10_RepackageAfterFullRewrite ==
    /\ pcM = "zip_extract_folder" => FullRewrite
    /\ archive # <<>> => FullRewrite /\ archive = work
    /\ pcM = "failed" => archive = <<>>

C10_Witness ==
    /\ pcM = "done"
    /\ archive # <<>>
    /\ Len(entity_occurrences) = 2
    /\ \A k \in DOMAIN work : work[k] # Chars(container[k].body)

\* ------------------------------------------------ the files of an EPUB run
\* A name in the directory of the book is the sequence of its parts, the last
\* one its suffix. The books of the EPUB runs are .epub files.
BookPaths == {<<"book", ".epub">>, <<"extract", ".epub">>,
              <<"book", "_x_ray", ".epub">>}

\* Path.stem
Stem(path) == SubSeq(path, 1, Len(path) - 1)

\* x_ray_epub.py:36  Path(book_path).with_name("extract")
ExtractFolder(path) == <<"extract">>

\* x_ray_epub.py:226  self.extract_folder.with_suffix('.zip')
ArchivePath(path) == ExtractFolder(path) \o <<".zip">>

OutputPath_SameName(path) == path

\* x_ray_epub.py:227  self.book_path.with_name(f'{self.book_path.stem}_x_ray.epub')
OutputPath(path) == Stem(path) \o <<"_x_ray", ".epub">>

DirNames ==
    UNION {{b, ExtractFolder(b), ArchivePath(b), OutputPath(b)} : b \in BookPaths}

\* What is at a name: "absent", the "book", an unrelated file or folder
\* ("other"), the working copy ("folder"), the new "archive".

FilesInit ==
    /\ IdleOffsets
    /\ IdleEntities
    /\ IdleAnchors
    /\ IdleExtract
    /\ IdleNer
    /\ IdleModify
    /\ IdleLemma
    /\ IdleFoot
    /\ IdleWikt
    /\ IdleDump
    /\ IdleJob
    /\ book_path \in BookPaths
    /\ \E others \in [DirNames -> {"absent", "other"}] :
          files = [others EXCEPT ![book_path] = "book"]
    /\ file_ops = <<>>
    /\ pcF = "__init__"

\* x_ray_epub.py:36-38: a folder left at the working copy's name is removed.
Construct ==
    /\ pcF = "__init__"
    /\ LET folder == ExtractFolder(book_path) IN
       IF files[folder] # "absent"
       THEN /\ files' = [files EXCEPT ![folder] = "absent"]
            /\ file_ops' = Append(file_ops, <<"rmtree", folder>>)
       ELSE UNCHANGED <<files, file_ops>>
    /\ pcF' = "extractall"
    /\ UNCHANGED <<book_path, exceptFiles>>

\* x_ray_epub.py:47-48: the book is read and unpacked into the working copy.
ExtractAll ==
    /\ pcF = "extractall"
    /\ files' = [files EXCEPT ![ExtractFolder(book_path)] = "folder"]
    /\ file_ops' = file_ops \o <<<<"read", book_path>>,
                                 <<"write", ExtractFolder(book_path)>>>>
    /\ pcF' = "rewrite"
    /\ UNCHANGED <<book_path, exceptFiles>>

\* insert_anchor_elements, create_footnotes and modify_opf write files of
\* the working copy.
RewriteWorkingCopy ==
    /\ pcF = "rewrite"
    /\ file_ops' = Append(file_ops, <<"write", ExtractFolder(book_path)>>)
    /\ pcF' = "make_archive"
    /\ UNCHANGED <<book_path, files, exceptFiles>>

\* x_ray_epub.py:224: the working copy is zipped next to itself.
MakeArchive ==
    /\ pcF = "make_archive"
    /\ files' = [files EXCEPT ![ArchivePath(book_path)] = "archive"]
    /\ file_ops' = file_ops \o <<<<"read", ExtractFolder(book_path)>>,
                                 <<"write", ArchivePath(book_path)>>>>
    /\ pcF' = "move"
    /\ UNCHANGED <<book_path, exceptFiles>>

\* x_ray_epub.py:225-227: the archive is moved to the output name.
MoveArchive ==
    /\ pcF = "move"
    /\ files' = [files EXCEPT ![ArchivePath(book_path)] = "absent",
                              ![OutputPath(book_path)] = "archive"]
    /\ file_ops' = file_ops \o <<<<"move", ArchivePath(book_path)>>,
                                 <<"write", OutputPath(book_path)>>>>
    /\ pcF' = "rmtree"
    /\ UNCHANGED <<book_path, exceptFiles>>

\* x_ray_epub.py:228: the working copy is removed.
RemoveWorkingCopy ==
    /\ pcF = "rmtree"
    /\ files' = [files EXCEPT ![ExtractFolder(book_path)] = "absent"]
    /\ file_ops' = Append(file_ops, <<"rmtree", ExtractFolder(book_path)>>)
    /\ pcF' = "done"
    /\ UNCHANGED <<book_path, exceptFiles>>

\* A statement of the run raises; the run has no handler.
FilesRaise ==
    /\ pcF \in {"__init__", "extractall", "rewrite", "make_archive", "move",
                "rmtree"}
    /\ pcF' = "failed"
    /\ UNCHANGED <<book_path, files, file_ops, exceptFiles>>

NextFiles ==
    \/ Construct \/ ExtractAll \/ RewriteWorkingCopy
    \/ MakeArchive \/ MoveArchive \/ RemoveWorkingCopy \/ FilesRaise

SpecFiles == FilesInit /\ [][NextFiles]_vars

\* C11: in an EPUB run the book at book_path is only read, never written,
\* moved or deleted; the annotated book is written to another name, the
\* book's stem followed by "_x_ray.epub"; and the working copy is gone when
\* the run is done.
C11_OriginalUntouched ==
    /\ pcF # "idle" => files[book_path] = "book"
    /\ \A i \in DOMAIN file_ops :
          file_ops[i][2] = book_path => file_ops[i][1] = "read"
    /\ pcF = "done" =>
          /\ OutputPath(book_path) # book_path
          /\ OutputPath(book_path) = Stem(book_path) \o <<"_x_ray", ".epub">>
          /\ files[OutputPath(book_path)] = "archive"
          /\ files[ExtractFolder(book_path)] = "absent"
          /\ \E i \in DOMAIN file_ops :
                file_ops[i] = <<"write", OutputPath(book_path)>>

C11_Witness ==
    /\ pcF = "done"
    /\ book_path = <<"extract", ".epub">>
    /\ files[<<"extract", "_x_ray", ".epub">>] = "archive"
    /\ \E i \in DOMAIN file_ops : file_ops[i] = <<"rmtree", <<"extract">>>>

\* ------------------------------------------------------- claims: do_job
\* The positions of the commits in the calls on ll_conn.
Commits == {i \in DOMAIN ll_log : ll_log[i] = <<"commit">>}

\* The calls find_lemma makes for the first n segments.
RECURSIVE LemmaCalls(_)
LemmaCalls(n) ==
    IF n = 0 THEN <<>>
    ELSE LemmaCalls(n - 1)
         \o find_lemma(segments[n].start, segments[n].text, BytesStr)

\* do_job is over for the book: it returned or an exception left it.
JobOver == pcN = "returned" \/ pcS = "raised"

C13_JointRaisesFirst ==
    /\ (book_fmt = "MOBI" /\ kf8_type = "joint") =>
          /\ segments = <<>>
          /\ ll_log = <<>>
          /\ tagged = <<>>
          /\ entity_occurrences = <<>>
          /\ entities = <<>>
          /\ pcN \in {"start", "run", "returned"}
          /\ pcN = "returned" => NothingToDo
    /\ pcS = "raised" => (book_fmt = "MOBI" /\ kf8_type = "joint" /\ pcN = "run")

C13_Witness ==
    /\ pcS = "raised"
    /\ kf8_type = "joint"
    /\ ll_conn = "open"
    /\ x_ray_pref
    /\ x_ray_db = "open"
    /\ NextMatch(container, 0, TRUE) # <<>>

\* ------------------------------------- find_named_entity on one segment
\* The texts of the runs: a letter, spaces and full stops.
NerAlphabet == {Ord("A"), Space, Dot}
NerTexts == SeqUpTo(NerAlphabet, MaxNerLen) \ {<<>>}

\* do_job in its loop, the generator having yielded the one segment of a
\* book, with the X-Ray wanted and no language layer.
InitNer ==
    /\ IdleOffsets
    /\ IdleAnchors
    /\ IdleEntities
    /\ IdleFiles
    /\ IdleModify
    /\ IdleLemma
    /\ IdleFoot
    /\ IdleWikt
    /\ IdleDump
    /\ book_fmt \in {"KFX", "MOBI"}
    /\ \E t \in NerTexts :
          IF book_fmt = "KFX"
          THEN /\ container = Blocks(<<t>>, 0)
               /\ segments = <<KfxSegment(container[1])>>
               /\ scan = [part |-> 2, pos |-> 0]
          ELSE /\ container = Encode(Paragraphs(<<t>>))
               /\ LET m == NextMatch(container, 0, TRUE) IN
                    /\ segments = <<SegmentOf(container, m, "")>>
                    /\ scan = [part |-> 1, pos |-> m[2]]
    /\ pcS = "run"
    /\ kf8_type = "other"
    /\ ll_conn = "none"
    /\ x_ray_pref = TRUE
    /\ x_ray_db = "open"
    /\ ll_log = <<>>
    /\ ner_done = 0
    /\ tagged = <<>>
    /\ pcN = "run"

NextNer == FindNamedEntity

SpecNer == InitNer /\ [][NextNer]_vars

\* The token occurs in t, as it is, between word boundaries.
LiteralMatch(token, t) ==
    \E i \in 0..(Len(t) - Len(token)) :
        /\ SubSeq(t, i + 1, i + Len(token)) = token
        /\ Boundary(t, i)
        /\ Boundary(t, i + Len(token))

\* The tokens of the nodes, in order.
TokensOf(nodes) == [k \in DOMAIN nodes |-> JoinTokens(nodes[k].leaves)]

\* The spans the resolver is to be invoked for: of at least 3 characters, not
\* seen earlier in the segment, with a literal word-boundary match.
RECURSIVE ToSearch(_, _, _)
ToSearch(tokens, k, t) ==
    IF k > Len(tokens) THEN <<>>
    ELSE (IF /\ Len(tokens[k]) >= 3
             /\ \A j \in 1..(k - 1) : tokens[j] # tokens[k]
             /\ LiteralMatch(tokens[k], t)
          THEN <<tokens[k]>> ELSE <<>>)
         \o ToSearch(tokens, k + 1, t)

\* The span texts the resolver was invoked with, in order: each invocation
\* appends one occurrence.
Searched ==
    IF entity_occurrences = <<>> THEN <<>>
    ELSE [o \in DOMAIN entity_occurrences[1].occs |->
             entity_occurrences[1].occs[o][3]]

\* C14: find_named_entity invokes the resolver for a tagged span if and only
\* if the span has at least 3 characters, was not seen earlier in the segment
\* and has a word-boundary literal match in the segment's text; a span without
\* such a match gives no occurrence and no entity.
C14_SearchIffLiteralMatch ==
    ner_done = 1 =>
        /\ Searched = ToSearch(TokensOf(tagged[1]), 1, SegText(1))
        /\ Len(entities) <= Len(Searched)

\* ------------------------------------------------------- dump_wikitionary
\* data/wiktionary.py:7
CJK_LANGS == {"zh", "ja", "ko"}

Run == Str(<<"r", "u", "n">>)
RunCap == Str(<<"R", "u", "n">>)
Ran == Str(<<"r", "a", "n">>)
Runs == Str(<<"r", "u", "n", "s">>)

\* The key a surface form is stored and looked up under: ahocorasick keeps
\* it, flashtext's KeywordProcessor() is case-insensitive and lowers it.
KeyOf(form, lng) == IF lng \in CJK_LANGS THEN form ELSE ToLower(form)

\* automaton.exists(x) / x in keyword_processor
Exists(mt, form, lng) == \E i \in DOMAIN mt : mt[i].key = KeyOf(form, lng)

\* automaton.add_word / keyword_processor.add_keyword: the value of a present
\* key is replaced.
AddWord(mt, form, value, lng) ==
    IF Exists(mt, form, lng)
    THEN [i \in DOMAIN mt |->
            IF mt[i].key = KeyOf(form, lng)
            THEN [key |-> mt[i].key, value |-> value] ELSE mt[i]]
    ELSE Append(mt, [key |-> KeyOf(form, lng), value |-> value])

\* data/wiktionary.py:109, 111, 122, 124: the value stored for a surface form
\* of an entry.
ValueOf(form, e, lng) ==
    IF lng \in CJK_LANGS
    THEN <<form, e.short_gloss, e.gloss, e.example>>
    ELSE <<e.short_gloss, e.gloss, e.example>>

RECURSIVE AddForms_Overwriting(_, _, _, _, _)
AddForms_Overwriting(mt, forms, k, e, lng) ==
    IF k > Len(forms) THEN mt
    ELSE AddForms_Overwriting(AddWord(mt, forms[k], ValueOf(forms[k], e, lng), lng),
                              forms, k + 1, e, lng)

\* data/wiktionary.py:110-111, 123-124: the forms of an entry, from the k-th
\* on, that are not in the matcher yet are added.
RECURSIVE AddForms(_, _, _, _, _)
AddForms(mt, forms, k, e, lng) ==
    IF k > Len(forms) THEN mt
    ELSE AddForms(IF Exists(mt, forms[k], lng) THEN mt
                  ELSE AddWord(mt, forms[k], ValueOf(forms[k], e, lng), lng),
                  forms, k + 1, e, lng)

\* data/wiktionary.py:106-111, 119-124: the loop over the entries from the
\* k-th on; the filter is evaluated when the loop reaches an entry.
RECURSIVE DumpFrom(_, _, _, _)
DumpFrom(mt, ws, k, lng) ==
    IF k > Len(ws) THEN mt
    ELSE IF ws[k].enabled /\ ~Exists(mt, ws[k].word, lng)
    THEN DumpFrom(AddForms(AddWord(mt, ws[k].word,
                                   ValueOf(ws[k].word, ws[k], lng), lng),
                           ws[k].forms, 1, ws[k], lng),
                  ws, k + 1, lng)
    ELSE DumpFrom(mt, ws, k + 1, lng)

\* dump_wikitionary: the matcher built from a word list.
dump_wikitionary(ws, lng) == DumpFrom(<<>>, ws, 1, lng)

\* The entries of the runs: any headword, any forms in any order; the glosses
\* and the example of the i-th entry are its own.
Headwords == {Run, RunCap, Ran}
FormLists == {<<>>, <<Ran>>, <<Runs, Ran>>}
EntriesAt(i) ==
    {[enabled |-> en, word |-> w, short_gloss |-> i, gloss |-> i,
      example |-> i, forms |-> fs] :
        en \in BOOLEAN, w \in Headwords, fs \in FormLists}

RECURSIVE WordLists(_)
WordLists(n) ==
    IF n = 0 THEN {<<>>}
    ELSE LET shorter == WordLists(n - 1) IN
         shorter \cup
         {Append(ws, e) : ws \in {x \in shorter : Len(x) = n - 1},
                          e \in EntriesAt(n)}

InitDump ==
    /\ IdleOffsets
    /\ IdleEntities
    /\ IdleAnchors
    /\ IdleExtract
    /\ IdleNer
    /\ IdleModify
    /\ IdleLemma
    /\ IdleFoot
    /\ IdleWikt
    /\ IdleFiles
    /\ IdleJob
    /\ words \in WordLists(MaxDumpWords)
    /\ lang \in {"en", "zh"}
    /\ matcher = <<>>
    /\ pcD = "ready"

DumpWikitionary ==
    /\ pcD = "ready"
    /\ matcher' = dump_wikitionary(words, lang)
    /\ pcD' = "done"
    /\ UNCHANGED <<words, lang, exceptDump>>

NextDump == DumpWikitionary

SpecDump == InitDump /\ [][NextDump]_vars

\* The value a surface form is mapped to, None for no mapping.
Lookup(mt, form, lng) ==
    IF Exists(mt, form, lng)
    THEN mt[CHOOSE i \in DOMAIN mt : mt[i].key = KeyOf(form, lng)].value
    ELSE None

\* The glosses and the example in a stored value.
GlossTuple(value, lng) == IF lng \in CJK_LANGS THEN Tail(value) ELSE value

\* The matcher after the first n entries of the list.
After(n) == dump_wikitionary(SubSeq(words, 1, n), lang)

\* C15: the matcher maps a surface form to one gloss tuple only; an entry of
\* the list never changes what the entries before it mapped a surface form
\* to, and what an entry adds is mapped to that entry's own gloss tuple.
C15_FirstInsertedWins ==
    pcD = "done" =>
        /\ matcher = After(Len(words))
        /\ \A i, j \in DOMAIN matcher : matcher[i].key = matcher[j].key => i = j
        /\ \A n \in 1..Len(words) :
              \A i \in DOMAIN After(n) :
                 LET key == After(n)[i].key IN
                 IF Exists(After(n - 1), key, lang)
                 THEN After(n)[i].value = Lookup(After(n - 1), key, lang)
                 ELSE GlossTuple(After(n)[i].value, lang)
                        = <<words[n].short_gloss, words[n].gloss, words[n].example>>

C15_Witness ==
    /\ pcD = "done"
    /\ Len(words) = 2
    /\ words[1].enabled /\ words[2].enabled
    /\ words[1].word = Run /\ words[1].forms = <<Ran>>
    /\ words[2].word = RunCap \/ words[2].word = Ran
    /\ words[2].forms = <<Runs, Ran>>
    /\ lang = "en"
    /\ Lookup(matcher, Ran, lang) = <<1, 1, 1>>

\* C16: every word and every form of an enabled entry is a key of the
\* matcher, and every key is a word or a form of an enabled entry.
C16_EnabledAreKeys ==
    pcD = "done" =>
        /\ \A n \in DOMAIN words :
              words[n].enabled =>
                 /\ Exists(matcher, words[n].word, lang)
                 /\ \A f \in DOMAIN words[n].forms :
                       Exists(matcher, words[n].forms[f], lang)
        /\ \A i \in DOMAIN matcher :
              \E n \in DOMAIN words :
                 /\ words[n].enabled
                 /\ \/ matcher[i].key = KeyOf(words[n].word, lang)
                    \/ \E f \in DOMAIN words[n].forms :
                          matcher[i].key = KeyOf(words[n].forms[f], lang)

\* ----------------------------------------------------- extract_wiktionary
\* data/wiktionary.py:8
POS_TYPES == {"adj", "adv", "noun", "phrase", "proverb", "verb"}

Semicolon == 59
Comma == 44
LParen == 40
RParen == 41

Obsolete == <<LParen>> \o Str(<<"o", "b", "s", "o", "l", "e", "t", "e">>) \o <<RParen>>

Least(S) == CHOOSE x \in S : \A y \in S : x <= y
Greatest(S) == CHOOSE x \in S : \A y \in S : x >= y

IsAsciiLetter(c) == (c >= 65 /\ c <= 90) \/ (c >= 97 /\ c <= 122)
IsDigit(c) == c >= 48 /\ c <= 57
IsIdeograph(c) == c >= 19968 /\ c <= 40959
\* re: \w (95 is the underscore)
IsWordChar(c) ==
    IsAsciiLetter(c) \/ IsDigit(c) \/ c = 95 \/ IsIdeograph(c)

\* re.fullmatch(r"[\W\d]+", word)
FullMatchSymbolsDigits(word) ==
    /\ Len(word) > 0
    /\ \A i \in DOMAIN word : ~IsWordChar(word[i]) \/ IsDigit(word[i])

\* re.fullmatch(r"[a-zA-Z]+", word)
FullMatchAsciiLetters(word) ==
    /\ Len(word) > 0
    /\ \A i \in DOMAIN word : IsAsciiLetter(word[i])

len_limit_Three(lng) == 3

\* data/wiktionary.py:40
len_limit(lng) == IF lng \in CJK_LANGS THEN 2 ELSE 3

\* data/wiktionary.py:46-53: the line is not skipped.
Accepted(word, pos, lng) ==
    /\ ~(\/ pos \notin POS_TYPES
         \/ Len(word) < len_limit(lng)
         \/ FullMatchSymbolsDigits(word))
    /\ ~(lng \in CJK_LANGS /\ FullMatchAsciiLetters(word))

\* A value Python takes for false where a string is expected: None or "".
Falsy(t) == t = None \/ t = <<>>

\* data/wiktionary.py:55-58: the set of the forms that are kept.
KeptForms(word, forms, lng) ==
    {forms[i] : i \in {j \in DOMAIN forms :
                         /\ ~Falsy(forms[j])
                         /\ Len(forms[j]) >= len_limit(lng)
                         /\ forms[j] # word}}

\* list(forms): the lists a set may be iterated as.
ListsOf(set) ==
    {l \in [1..Cardinality(set) -> set] : \A i, j \in DOMAIN l :
                                             l[i] = l[j] => i = j}

\* re.sub(r"\([^)]+\)", "", gloss) from the 1-based i on.
RECURSIVE RemoveParens(_, _)
RemoveParens(t, i) ==
    IF i > Len(t) THEN <<>>
    ELSE LET closing == {j \in (i + 1)..Len(t) : t[j] = RParen} IN
         IF t[i] = LParen /\ closing # {} /\ Least(closing) >= i + 2
         THEN RemoveParens(t, Least(closing) + 1)
         ELSE <<t[i]>> \o RemoveParens(t, i + 1)

\* re.split(r"[;,]", t, 1)[0]
BeforeSeparator(t) ==
    LET seps == {i \in DOMAIN t : t[i] = Semicolon \/ t[i] = Comma} IN
    IF seps = {} THEN t ELSE SubSeq(t, 1, Least(seps) - 1)

\* str.strip()
Strip(t) ==
    LET inked == {i \in DOMAIN t : t[i] # Space} IN
    IF inked = {} THEN <<>> ELSE SubSeq(t, Least(inked), Greatest(inked))

\* data/wiktionary.py:130-131
short_def(gloss) == Strip(BeforeSeparator(RemoveParens(gloss, 1)))

\* data/wiktionary.py:71-75: the example sentence of a sense, from the k-th
\* example on.
RECURSIVE ExampleSent(_, _)
ExampleSent(examples, k) ==
    IF k > Len(examples) THEN None
    ELSE IF ~Falsy(examples[k]) /\ examples[k] # Obsolete THEN examples[k]
    ELSE ExampleSent(examples, k + 1)

\* data/wiktionary.py:65-70: the sense is passed over.
Skipped(sense) ==
    \/ sense.glosses = <<>>
    \/ sense.tags \cap {"plural", "alternative"} # {}

SensesToo_FirstOnly(senses, k, enabled, word, formlist, lemmas) ==
    LET valid == {i \in k..Len(senses) : ~Skipped(senses[i])} IN
    IF valid = {} THEN <<>>
    ELSE <<[enabled |-> IF lemmas = {} THEN enabled ELSE word \in lemmas,
            word |-> word,
            short_gloss |-> short_def(senses[Least(valid)].glosses[1]),
            gloss |-> senses[Least(valid)].glosses[1],
            example |-> ExampleSent(senses[Least(valid)].examples, 1),
            forms |-> formlist]>>

\* data/wiktionary.py:60-85: the entries appended for the senses of a line
\* from the k-th on.
RECURSIVE SensesToo(_, _, _, _, _, _)
SensesToo(senses, k, enabled, word, formlist, lemmas) ==
    IF k > Len(senses) THEN <<>>
    ELSE IF Skipped(senses[k])
    THEN SensesToo(senses, k + 1, enabled, word, formlist, lemmas)
    ELSE <<[enabled |-> IF lemmas = {} THEN enabled ELSE word \in lemmas,
            word |-> word,
            short_gloss |-> short_def(senses[k].glosses[1]),
            gloss |-> senses[k].glosses[1],
            example |-> ExampleSent(senses[k].examples, 1),
            forms |-> formlist]>>
         \o SensesToo(senses, k + 1, FALSE, word, formlist, lemmas)

\* The words, forms, glosses and examples of the runs.
\* 'a', the ideograph U+4E2D, '1', '-' and '_'.
WordAlphabet == {Ord("a"), 20013, 49, 45, 95}
WiktWords == SeqUpTo(WordAlphabet, MaxWordLen)
ZhongZhong == <<20013, 20013>>
FormCandidates == {None, <<>>, Str(<<"a", "b">>), Ran, ZhongZhong, Run}
\* The gloss of the i-th sense: "(x) a...a, b", whose short form is i a's.
GlossAt(i) ==
    <<LParen, Ord("x"), RParen, Space>> \o [k \in 1..i |-> Ord("a")]
        \o <<Comma, Space, Ord("b")>>
ExampleA == Str(<<"a">>)
ExampleB == Str(<<"b">>)
ExampleLists ==
    {<<>>, <<Obsolete, <<>>, None, ExampleB>>, <<ExampleA, ExampleB>>}
SensesAt(i) ==
    {[glosses |-> g, tags |-> tg, examples |-> ex] :
        g \in {<<>>, <<GlossAt(i)>>},
        tg \in {{}, {"plural"}, {"archaic", "alternative"}},
        ex \in ExampleLists}

RECURSIVE SenseLists(_)
SenseLists(n) ==
    IF n = 0 THEN {<<>>}
    ELSE LET shorter == SenseLists(n - 1) IN
         shorter \cup
         {Append(ss, sense) : ss \in {x \in shorter : Len(x) = n - 1},
                              sense \in SensesAt(n)}

PlainSense == [glosses |-> <<GlossAt(1)>>, tags |-> {}, examples |-> <<>>]

\* The runs: a line of any word and part of speech, a line of any forms, or
\* a line of any senses, alone in the file or followed by the line of "ran".
WordLines ==
    {[word |-> w, pos |-> p, forms |-> <<>>, senses |-> <<PlainSense>>] :
        w \in WiktWords, p \in {"noun", "verb", "name"}}
FormLines ==
    {[word |-> w, pos |-> "noun", forms |-> fs, senses |-> <<PlainSense>>] :
        w \in {Run, ZhongZhong}, fs \in SeqUpTo(FormCandidates, MaxForms)}
SenseLines ==
    {[word |-> Run, pos |-> "verb", forms |-> <<>>, senses |-> ss] :
        ss \in SenseLists(MaxSenses)}
LineOfRan ==
    [word |-> Ran, pos |-> "verb", forms |-> <<Run>>, senses |-> <<PlainSense>>]
WiktRuns ==
    {[file |-> <<l>>, lang |-> lng, kindle_lemmas |-> {}] :
        l \in WordLines \cup FormLines, lng \in {"en", "zh"}}
    \cup {[file |-> fl, lang |-> "en", kindle_lemmas |-> kl] :
            fl \in UNION {{<<l>>, <<l, LineOfRan>>} : l \in SenseLines},
            kl \in {{}, {Run}}}

InitWikt ==
    /\ IdleOffsets
    /\ IdleEntities
    /\ IdleAnchors
    /\ IdleExtract
    /\ IdleNer
    /\ IdleModify
    /\ IdleLemma
    /\ IdleFoot
    /\ IdleFiles
    /\ IdleJob
    /\ \E run \in WiktRuns :
          /\ file = run.file
          /\ lang = run.lang
          /\ kindle_lemmas = run.kindle_lemmas
    /\ line_no = 0
    /\ words = <<>>
    /\ matcher = <<>>
    /\ pcD = "idle"
    /\ pcW = "ready"

\* data/wiktionary.py:42-53: a line that is skipped.
SkipLine ==
    /\ pcW = "ready"
    /\ line_no < Len(file)
    /\ ~Accepted(file[line_no + 1].word, file[line_no + 1].pos, lang)
    /\ line_no' = line_no + 1
    /\ UNCHANGED <<file, kindle_lemmas, pcW, dumpVars, exceptWikt>>

\* data/wiktionary.py:42-85: a line that is not skipped.
ExtractLine ==
    /\ pcW = "ready"
    /\ line_no < Len(file)
    /\ LET data == file[line_no + 1] IN
       /\ Accepted(data.word, data.pos, lang)
       /\ \E formlist \in ListsOf(KeptForms(data.word, data.forms, lang)) :
             words' = words \o SensesToo(data.senses, 1, TRUE, data.word,
                                         formlist, kindle_lemmas)
    /\ line_no' = line_no + 1
    /\ UNCHANGED <<file, kindle_lemmas, pcW, lang, matcher, pcD, exceptWikt>>

\* data/wiktionary.py:87-91: the end of the file.
WriteWords ==
    /\ pcW = "ready"
    /\ line_no = Len(file)
    /\ pcW' = "done"
    /\ UNCHANGED <<file, line_no, kindle_lemmas, dumpVars, exceptWikt>>

NextWikt == SkipLine \/ ExtractLine \/ WriteWords

SpecWikt == InitWikt /\ [][NextWikt]_vars

\* ------------------------------------------------ claims: extract_wiktionary
\* The line has a sense that gives an entry.
HasSense(data) == \E i \in DOMAIN data.senses : ~Skipped(data.senses[i])

\* The entries of the word list made for a word.
EntriesOf(word) == {i \in DOMAIN words : words[i].word = word}

\* C17: a (word, part of speech) candidate is accepted iff the part of
\* speech is in POS_TYPES, the word has at least 2 (CJK) or 3 (otherwise)
\* codepoints, it is not made of symbols and digits only and, for a CJK
\* language, it is not made of ASCII letters only; every form kept for an
\* accepted word has at least that many codepoints too.
C17_AcceptedIff ==
    \A n \in 1..line_no :
       LET data == file[n]
           floor == IF lang \in {"zh", "ja", "ko"} THEN 2 ELSE 3
       IN
       /\ HasSense(data) =>
             (EntriesOf(data.word) # {}
                <=> /\ data.pos \in POS_TYPES
                    /\ Len(data.word) >= floor
                    /\ \E i \in DOMAIN data.word :
                          IsWordChar(data.word[i]) /\ ~IsDigit(data.word[i])
                    /\ lang \in {"zh", "ja", "ko"} =>
                          \E i \in DOMAIN data.word :
                             ~IsAsciiLetter(data.word[i]))
       /\ \A e \in EntriesOf(data.word) :
             \A f \in DOMAIN words[e].forms : Len(words[e].forms[f]) >= floor

C17_Witness ==
    /\ pcW = "done"
    /\ lang = "zh"
    /\ file[1].word = ZhongZhong
    /\ file[1].forms = <<Str(<<"a", "b">>), Ran>>
    /\ Len(words) = 1
    /\ words[1].word = ZhongZhong
    /\ Len(words[1].forms) = 2

\* The senses of the n-th line that have a gloss and are not tagged plural
\* or alternative, when the line is accepted.
ValidSenses(n) ==
    IF Accepted(file[n].word, file[n].pos, lang)
    THEN SelectSeq(file[n].senses,
                   LAMBDA sense : /\ sense.glosses # <<>>
                                  /\ "plural" \notin sense.tags
                                  /\ "alternative" \notin sense.tags)
    ELSE <<>>

\* The entries made before the n-th line.
RECURSIVE EntriesBefore(_)
EntriesBefore(n) ==
    IF n <= 1 THEN 0 ELSE EntriesBefore(n - 1) + Len(ValidSenses(n - 1))

\* The first example text that is not empty and not "(obsolete)", else None.
FirstExample(examples) ==
    LET good == {i \in DOMAIN examples :
                    examples[i] \notin {None, <<>>, Obsolete}}
    IN IF good = {} THEN None ELSE examples[Least(good)]

\* C19 as stated: an accepted candidate contributes at most one entry, the
\* one of its first sense with a gloss and without the tags, with that
\* sense's first usable example.
C19_AtMostOneEntry ==
    pcW = "done" =>
        /\ Len(words) = Cardinality({n \in DOMAIN file : ValidSenses(n) # <<>>})
        /\ \A n \in DOMAIN file :
              ValidSenses(n) # <<>> =>
                 LET entry == words[EntriesBefore(n) + 1] IN
                 /\ entry.word = file[n].word
                 /\ entry.gloss = ValidSenses(n)[1].glosses[1]
                 /\ entry.example = FirstExample(ValidSenses(n)[1].examples)

\* C19: an accepted candidate contributes one entry for each of its senses
\* that has a gloss and is not tagged plural or alternative, in the order of
\* the senses; without Kindle lemmas only the first of them is enabled, with
\* Kindle lemmas each is enabled iff the word is a Kindle lemma; the example
\* of an entry is its own sense's first example text that is not empty and
\* not "(obsolete)", else none.
C19_EntryPerSense ==
    pcW = "done" =>
        /\ Len(words) = EntriesBefore(Len(file) + 1)
        /\ \A n \in DOMAIN file :
              \A k \in DOMAIN ValidSenses(n) :
                 LET entry == words[EntriesBefore(n) + k] IN
                 /\ entry.word = file[n].word
                 /\ entry.gloss = ValidSenses(n)[k].glosses[1]
                 /\ entry.example = FirstExample(ValidSenses(n)[k].examples)
                 /\ entry.enabled = IF kindle_lemmas = {} THEN k = 1
                                    ELSE file[n].word \in kindle_lemmas

C19_Witness ==
    /\ pcW = "done"
    /\ kindle_lemmas = {}
    /\ Len(file) = 2
    /\ Len(ValidSenses(1)) = 2
    /\ Len(words) = 3
    /\ words[1].enabled /\ ~words[2].enabled /\ words[3].enabled
    /\ words[1].short_gloss = Str(<<"a">>)
    /\ words[2].short_gloss = Str(<<"a", "a">>)
    /\ words[2].example = ExampleB

\* ----------------------------------------------- create_footnotes alone
\* The entity tables of the runs: what add_entity makes of the calls of a
\* book, from the k-th call on.
RECURSIVE TableAfter(_, _, _)
TableAfter(self, adds, k) ==
    IF k > Len(adds) THEN self
    ELSE TableAfter(add_entity(self, adds[k].entity, adds[k].label,
                               adds[k].quote, SegmentGap * k,
                               SegmentGap * k + Len(adds[k].entity),
                               "ch1.xhtml"),
                    adds, k + 1)

QuoteWithMarkup == <<Ord("<")>> \o Str(<<"q">>) \o <<34>>
FootAdds ==
    LET one == {[entity |-> e, label |-> l, quote |-> QuoteWithMarkup] :
                   e \in {MrDarcy, Elizabeth}, l \in Labels}
    IN {<<>>} \cup {<<a>> : a \in one}
         \cup {<<a, b>> : a \in one, b \in one}

InitFoot ==
    /\ IdleOffsets
    /\ IdleAnchors
    /\ IdleExtract
    /\ IdleNer
    /\ IdleFiles
    /\ IdleDump
    /\ IdleWikt
    /\ IdleLemma
    /\ IdleJob
    /\ \E adds \in FootAdds :
          LET self == TableAfter([entity_id |-> 0, entities |-> <<>>,
                                  entity_occurrences |-> <<>>], adds, 1)
          IN /\ entity_id = self.entity_id
             /\ entities = self.entities
             /\ entity_occurrences = self.entity_occurrences
             /\ calls = Len(adds)
    /\ last_call = <<>>
    /\ search_people \in BOOLEAN
    /\ intro_cache \in {{}, {Elizabeth}, {MrDarcy, Elizabeth}}
    /\ wikidata \in BOOLEAN
    /\ wikidata_cache \in IF wikidata THEN {"none", "plain", "map"}
                                      ELSE {"none"}
    /\ work = <<>>
    /\ part_k = 0
    /\ made = <<>>
    /\ archive = <<>>
    /\ pcM = "idle"
    /\ footnotes = <<>>
    /\ image_filenames = {}
    /\ pcFn = "ready"

CreateFootnotesPage ==
    /\ pcFn = "ready"
    /\ LET after == create_footnotes(entities, search_people, intro_cache,
                                     wikidata, wikidata_cache)
       IN /\ footnotes' = after.footnotes
          /\ image_filenames' = after.image_filenames
    /\ pcFn' = "done"
    /\ UNCHANGED <<search_people, intro_cache, wikidata_cache, entityVars,
                   modifyVars, exceptFoot>>

NextFoot == CreateFootnotesPage

SpecFoot == InitFoot /\ [][NextFoot]_vars

\* C18 as stated: the footnote of an entity shows the cached text whenever
\* the cache holds a record for the entity, and the quote only when it does
\* not.
C18_IntroWheneverCached ==
    pcFn = "done" =>
        /\ Len(footnotes) = Len(entities)
        /\ \A i \in DOMAIN entities :
              /\ footnotes[i].id = entities[i].id
              /\ footnotes[i].text =
                    IF entities[i].key \in intro_cache
                    THEN escape(IntroOf(entities[i].key))
                    ELSE escape(entities[i].quote)

\* C18: the footnote of an entity shows the cached text when the cache holds
\* a record for the entity and either people are searched or the entity's
\* label is not a person label; otherwise it shows the entity's quote.
C18_IntroWhenSearched ==
    pcFn = "done" =>
        /\ Len(footnotes) = Len(entities)
        /\ \A i \in DOMAIN entities :
              /\ footnotes[i].id = entities[i].id
              /\ footnotes[i].text =
                    IF /\ entities[i].key \in intro_cache
                       /\ search_people \/ entities[i].label # "PERSON"
                    THEN escape(IntroOf(entities[i].key))
                    ELSE escape(entities[i].quote)

C18_Witness ==
    /\ pcFn = "done"
    /\ ~search_people
    /\ Len(entities) = 2
    /\ entities[1].label = "PERSON" /\ entities[1].key \in intro_cache
    /\ entities[2].label = "GPE" /\ entities[2].key \in intro_cache
    /\ footnotes[1].text = escape(QuoteWithMarkup)
    /\ footnotes[2].text = escape(IntroOf(entities[2].key))
    /\ footnotes[2].text # IntroOf(entities[2].key)

\* --------------------------------------------------- the runs of find_lemma
LemmaAlphabet == {Ord("a"), Ord("b"), SoftHyphen, Space}
LemmaTexts == SeqUpTo(LemmaAlphabet, MaxLemmaLen)

\* parse_job.py:85-86: the arguments of wn.morphy for a text, match by match.
LemmaLookups(t) ==
    LET ms == LemmaMatches(t, 1) IN
    [k \in DOMAIN ms |-> MorphyArg(ms[k].group)]

InitLemma ==
    /\ IdleOffsets
    /\ IdleEntities
    /\ IdleAnchors
    /\ IdleExtract
    /\ IdleNer
    /\ IdleModify
    /\ IdleFiles
    /\ IdleJob
    /\ IdleDump
    /\ IdleWikt
    /\ IdleFoot
    /\ lemma_text \in LemmaTexts
    /\ lemma_bytes \in BOOLEAN
    /\ lookups = <<>>
    /\ inserts = <<>>
    /\ pcL = "ready"

\* One call of find_lemma, on the text or on its UTF-8 bytes.
FindLemma ==
    /\ pcL = "ready"
    /\ lookups' = LemmaLookups(lemma_text)
    /\ inserts' = find_lemma(0, IF lemma_bytes THEN Encode(lemma_text)
                                ELSE lemma_text, lemma_bytes)
    /\ pcL' = "done"
    /\ UNCHANGED <<lemma_text, lemma_bytes, exceptLemma>>

NextLemma == FindLemma

SpecLemma == InitLemma /\ [][NextLemma]_vars

\* C20: every argument of the morphological lookup has at least 3
\* characters, all of them letters; a write is made for a run iff the result
\* of the lookup is a key of the lemma table, and a miss makes no write.
C20_LookupsOfThreeLetters ==
    pcL = "done" =>
        /\ \A k \in DOMAIN lookups :
              /\ Len(lookups[k]) >= 3
              /\ \A i \in DOMAIN lookups[k] : IsAsciiLetter(lookups[k][i])
        /\ Len(inserts) =
              Cardinality({k \in DOMAIN lookups : Morphy(lookups[k]) \in Lemmas})
        /\ \A j \in DOMAIN inserts :
              \E k \in DOMAIN lookups : Morphy(lookups[k]) = inserts[j][3]

\* ------------------------------------------------- claims: do_job's return
\* C22: a do_job that opened a language layer connection and returns without
\* raising has committed and then closed the connection before the return,
\* whatever the X-Ray preference and whatever create_x_ray_db returned.
C22_CommittedAndClosed ==
    (pcN = "returned" /\ ll_conn = "open") =>
        \E i \in DOMAIN ll_log :
           /\ ll_log[i] = <<"commit">>
           /\ i + 1 = Len(ll_log)
           /\ ll_log[i + 1] = <<"close">>

\* -------------------------------------------- claims: anchors and footnotes
\* The ids the anchors of the new book refer to.
AnchorIds ==
    UNION {{archive[k][p][2] : p \in {q \in DOMAIN archive[k] :
                                         archive[k][q][1] = "a"}} :
              k \in DOMAIN archive}

\* The footnotes of the page that have an id.
FootnotesOf(id) == {j \in DOMAIN footnotes : footnotes[j].id = id}

\* C21: after modify_epub every anchor of the new book refers to an id that
\* exactly one footnote of the page has; the page has exactly one footnote
\* for each entity of the table and no footnote of any other id.
C21_AnchorsHaveFootnotes ==
    pcM = "done" =>
        /\ \A id \in AnchorIds : Cardinality(FootnotesOf(id)) = 1
        /\ \A i \in DOMAIN entities :
              Cardinality(FootnotesOf(entities[i].id)) = 1
        /\ \A j \in DOMAIN footnotes :
              \E i \in DOMAIN entities : entities[i].id = footnotes[j].id

C21_Witness ==
    /\ pcM = "done"
    /\ Len(entities) = 2
    /\ Cardinality(AnchorIds) = 2
    /\ Len(footnotes) = 2
    /\ footnotes[1].source_link /\ ~footnotes[2].source_link

====
